---- MODULE Spec2Model ----
(***************************************************************************)
(* A model of the FDO conformance server's step handlers:                  *)
(*   - the rendezvous TO1 handlers Handle30HelloRV and Handle32ProveToRV,  *)
(*   - the owner TO2 handler DeviceServiceInfo68,                          *)
(*   - the session store they read and write,                              *)
(*   - the user API over the user store and dbs.SessionDB,                 *)
(*   - the test batches of the TO2 requestor.                              *)
(* Every handler is one action; the store operations that can fail take    *)
(* their outcome from the request's "fault" input, which names the one     *)
(* operation that fails while the request is handled ("none": no failure). *)
(***************************************************************************)
EXTENDS Integers, Sequences, FiniteSets, TLC

VARIABLES
    rvSessions,   \* rendezvous session store: token -> SessionEntry or NoSession
    ownersignDB,  \* rendezvous owner-sign store: guid -> entry or NoOwnerSign
    doSessions,   \* owner session store: token -> SessionEntry or NoSession
    listenerDB,   \* test-run store: guid -> RequestListenerInst or NoListener
    lastStep,     \* history: token -> the step its session completed last: 31
                  \* once Hello stored it, 33 once a Redirect was sent on it
    sent,         \* history: token -> owner pages written to the transport, in order
    last,         \* history: the request handled last, its answer, the state it met
    conc,         \* the two in-flight requests of the concurrent specification
    userSessions, \* dbs.SessionDB: key -> the encoded SessionEntry or NoSession
    expiresAt,    \* dbs.SessionDB: key -> the time its entry expires, NoTTL: never
    createdAt,    \* history: token -> the time NewSessionEntry stored its entry
    userDB,       \* dbs.UserTestDB: email -> user entry or NoUser
    now,          \* the clock the store's TTL is measured against
    cfgMode,      \* the build the server runs as: "online" or "onprem"
    exec          \* the batch executor of the TO2 requestor tests: its list,
                  \* its position, the messages of the handshake it ran last
                  \* and the tests it reported

protoVars == <<rvSessions, ownersignDB, doSessions, listenerDB, lastStep, sent, conc>>

apiVars == <<userSessions, expiresAt, createdAt, userDB, now, cfgMode>>

vars == <<rvSessions, ownersignDB, doSessions, listenerDB, lastStep, sent, last, conc,
          userSessions, expiresAt, createdAt, userDB, now, cfgMode, exec>>

----------------------------------------------------------------------------
(* Message types and HTTP statuses used by the handlers *)

TO1_30_HELLO_RV == 30
TO1_31_HELLO_RV_ACK == 31
TO1_32_PROVE_TO_RV == 32
TO1_33_RV_REDIRECT == 33
TO2_64_PROVE_DEVICE == 64
TO2_67_OWNER_SERVICE_INFO_READY == 67
TO2_68_DEVICE_SERVICE_INFO == 68
TO2_69_OWNER_SERVICE_INFO == 69

StatusOK == 200
StatusBadRequest == 400
StatusUnauthorized == 401
StatusInternalServerError == 500

NULL_TEST == "NULL_TEST"
FIDO_LISTENER_POSITIVE == "FIDO_LISTENER_POSITIVE"
FIDO_LISTENER_DEVICE_30_BAD_ENCODING == "FIDO_LISTENER_DEVICE_30_BAD_ENCODING"
FIDO_LISTENER_DEVICE_32_BAD_ENCODING == "FIDO_LISTENER_DEVICE_32_BAD_ENCODING"
FIDO_LISTENER_DEVICE_32_BAD_TO1D == "FIDO_LISTENER_DEVICE_32_BAD_TO1D"

----------------------------------------------------------------------------
(* Bounds of the model *)

MaxOwnerPages == 3   \* longest buffered OwnerSIMs sequence
MaxDeviceSIMs == 2   \* longest accumulated DeviceSIMs sequence
MaxLog == 2          \* a test run takes requests while its log is shorter

Tokens == {"t1", "t2"}
Guids == {"g1", "g2"}
Nonces == {"n1", "n2"}
Keys == {"k1", "k2"}
DevicePayloads == {"d1", "d2"}

\* const ONPREM_CONFIG string = "tester@fido.local"
ONPREM_CONFIG == "tester@fido.local"

Emails == {"a@fido.org", "b@fido.org", ONPREM_CONFIG}

MaxClock == 2        \* the clock stops after MaxClock weeks

NoSession == [kind |-> "none"]
NoListener == [kind |-> "none"]
NoOwnerSign == [kind |-> "none"]
NoUser == [kind |-> "none"]
NoExec == [batch |-> "none"]
NoPage == 0
NilServiceInfo == "nil"

\* OwnerSIMs of n pages: page i is the i-th buffered payload
OwnerPages(n) == [i \in 1..n |-> i]

----------------------------------------------------------------------------
(* The conformance oracle's test-run record: one run per sub-protocol,     *)
(* with its queue of test identifiers, the index into it, the expected     *)
(* next message type and the log of outcomes.                              *)

NewRun(expected, tests) ==
    [ExpectedCmd |-> expected, CurrentTestIndex |-> 0, LastTestID |-> NULL_TEST,
     Tests |-> tests, CompletedCmds |-> {}, Completed |-> FALSE, Log |-> <<>>]

IdleRun == NewRun(0, <<>>)

NewListener(to1, to2) == [kind |-> "listener", To1 |-> to1, To2 |-> to2]

CheckExpectedCmd(run, cmd) == run.ExpectedCmd = cmd

CheckCmdTestingIsCompleted(run, cmd) ==
    run.Completed \/ cmd \in run.CompletedCmds

GetLastTestID(run) == run.LastTestID

RunQueue(run) == run.Tests

QueueHasNext(run) == ~run.Completed /\ run.CurrentTestIndex < Len(RunQueue(run))

\* pops the next test identifier of the run's queue; NULL_TEST when exhausted
GetNextTestID(run) ==
    IF QueueHasNext(run)
    THEN [run EXCEPT !.LastTestID = RunQueue(run)[run.CurrentTestIndex + 1],
                     !.CurrentTestIndex = run.CurrentTestIndex + 1]
    ELSE [run EXCEPT !.LastTestID = NULL_TEST]

PushSuccess(run) == [run EXCEPT !.Log = Append(run.Log, "pass")]

PushFail(run) == [run EXCEPT !.Log = Append(run.Log, "fail")]

CompleteCmdAndSetNext(run, next) ==
    [run EXCEPT !.CompletedCmds = run.CompletedCmds \cup {run.ExpectedCmd},
                !.ExpectedCmd = next]

CompleteTestRun(run) == [run EXCEPT !.Completed = TRUE]

RunOf(listener, protocol) ==
    IF protocol = "To1" THEN listener.To1 ELSE listener.To2

WithRun(listener, protocol, run) ==
    IF protocol = "To1" THEN [listener EXCEPT !.To1 = run]
    ELSE [listener EXCEPT !.To2 = run]

\* The block every handler runs once it holds the device's test-run record:
\* check the received message type against the expected one, record the
\* outcome of the previous test, select this step's test identifier.
OracleSelectTest(run, cmd) ==
    IF CheckCmdTestingIsCompleted(run, cmd)
    THEN [run |-> run, testId |-> NULL_TEST, touched |-> FALSE]
    ELSE LET r1 == IF ~CheckExpectedCmd(run, cmd)
                      /\ GetLastTestID(run) # FIDO_LISTENER_POSITIVE
                   THEN PushFail(run)
                   ELSE IF run.CurrentTestIndex # 0 THEN PushSuccess(run)
                        ELSE run
             r2 == IF ~CheckCmdTestingIsCompleted(r1, cmd)
                   THEN GetNextTestID(r1) ELSE r1
         IN  [run |-> r2,
              testId |-> IF ~CheckCmdTestingIsCompleted(r1, cmd)
                         THEN r2.LastTestID ELSE NULL_TEST,
              touched |-> TRUE]

SelectFor(listener, protocol, cmd) ==
    IF listener = NoListener
    THEN [run |-> IdleRun, testId |-> NULL_TEST, touched |-> FALSE]
    ELSE OracleSelectTest(RunOf(listener, protocol), cmd)

----------------------------------------------------------------------------
(* Responses *)

Resp(kind, status, msgType, auth, body) ==
    [kind |-> kind, status |-> status, msgType |-> msgType, auth |-> auth,
     body |-> body]

ErrorResp(status, code) == Resp("error", status, 255, "", code)

\* the handler goroutine panicked: net/http recovers it and closes the
\* connection, no response is written
PanicResp == Resp("panic", 0, 0, "", "panic")

NoResp == Resp("none", 0, 0, "", "none")

NoMsg == [kind |-> "none"]

Outcome(db, ldb, resp, built, mem) ==
    [db |-> db, ldb |-> ldb, resp |-> resp, built |-> built, mem |-> mem]

\* fdoshared.RespondFDOError: the error response, nothing recorded
RespondFDOError(db, ldb, status, code) ==
    Outcome(db, ldb, ErrorResp(status, code), NoMsg, NoSession)

\* listenertestsdeps.Conf_RespondFDOError: the error response, and the failure
\* recorded in the given sub-protocol's run when a test-run record is held
Conf_RespondFDOError(db, ldb, guid, listener, protocol, status, code) ==
    Outcome(db,
            IF listener = NoListener THEN ldb
            ELSE [ldb EXCEPT ![guid] =
                     WithRun(listener, protocol, PushFail(RunOf(listener, protocol)))],
            ErrorResp(status, code), NoMsg, NoSession)

\* fdoshared.CheckHeaders answers a request with a wrong method, path or
\* content type itself
CheckHeaders(req) == req.fault # "headers"

----------------------------------------------------------------------------
(* The session store *)

\* UpdateSessionEntry: one read-write transaction that sets the whole entry
UpdateSessionEntry(db, entryId, sessionInst, commits) ==
    [ok |-> commits,
     db |-> IF commits THEN [db EXCEPT ![entryId] = sessionInst] ELSE db]

\* GetSessionEntry: one transaction that reads the whole entry
GetSessionEntry(db, entryId) ==
    [ok |-> db[entryId] # NoSession, session |-> db[entryId]]

\* NewSessionEntry: stores the entry under a random new identifier
NewSessionEntry(db, entryId, sessionInst, commits) ==
    [ok |-> commits,
     db |-> IF commits THEN [db EXCEPT ![entryId] = sessionInst] ELSE db]

\* const MAX_SESSION_TIME time.Duration = 7 * 24 * time.Hour; the clock of
\* the model counts weeks
MAX_SESSION_TIME == 1

\* dbtxn.Set(key, value): the entry is written with no expiry time
NoTTL == 0

\* badger.NewEntry(key, value).WithTTL(MAX_SESSION_TIME)
WithTTL(clock) == clock + MAX_SESSION_TIME

\* dbtxn.Get answers ErrKeyNotFound for an entry whose expiry time has come
Expired(exp, clock) == exp # NoTTL /\ exp <= clock

\* the entries the store still answers at the given time
Unexpired(db, exp, clock) ==
    [t \in DOMAIN db |-> IF Expired(exp[t], clock) THEN NoSession ELSE db[t]]

\* dbs.SessionEntry
SessionEntry(email) == [kind |-> "session", Email |-> email]

\* []byte("session-" + id): the key an entry is stored under
SessionKey(entryId) == <<"session-", entryId>>

SessionKeys == {SessionKey(t) : t \in Tokens}

\* cbor.Marshal of a SessionEntry, a struct encoded as the array of its fields
cborMarshal(sessionInst) == [kind |-> "cbor", array |-> <<sessionInst.Email>>]

\* cbor.Unmarshal into a SessionEntry: an array of one field decodes
cborUnmarshal(itemBytes) ==
    IF Len(itemBytes.array) = 1
    THEN [ok |-> TRUE, session |-> SessionEntry(itemBytes.array[1])]
    ELSE [ok |-> FALSE, session |-> NoSession]

\* the user stores of a server that serves no user request
ApiIdle ==
    /\ userSessions = [k \in SessionKeys |-> NoSession]
    /\ expiresAt = [k \in SessionKeys |-> NoTTL]
    /\ createdAt = [t \in Tokens |-> -1]
    /\ userDB = [e \in Emails |-> NoUser]
    /\ now = 0
    /\ cfgMode = "online"

----------------------------------------------------------------------------
(* TO2: DeviceServiceInfo68 *)

DoSession(guid, prevCmd, ownerSIMs) ==
    [kind |-> "session", Guid |-> guid, PrevCMD |-> prevCmd,
     OwnerSIMs |-> ownerSIMs, OwnerSIMsSendCounter |-> 0,
     OwnerSIMsFinishedSending |-> FALSE, DeviceSIMs |-> <<>>]

\* receiveAndDecrypt: resolves the session of the bearer token, decrypts the
\* body with the session key and loads the device's test-run record
receiveAndDecrypt(db, ldb, req) ==
    LET got == GetSessionEntry(db, req.token) IN
    IF req.fault = "auth" \/ ~got.ok
    THEN [ok |-> FALSE, session |-> NoSession, listener |-> NoListener,
          resp |-> ErrorResp(StatusUnauthorized, "MESSAGE_BODY_ERROR")]
    ELSE IF req.fault = "decrypt"
    THEN [ok |-> FALSE, session |-> NoSession, listener |-> NoListener,
          resp |-> ErrorResp(StatusBadRequest, "MESSAGE_BODY_ERROR")]
    ELSE [ok |-> TRUE, session |-> got.session,
          listener |-> ldb[got.session.Guid], resp |-> NoResp]

PrevCmdAccepted_Any(session) == TRUE

\* the previous-step check of DeviceServiceInfo68
PrevCmdAccepted(session) ==
    session.PrevCMD = TO2_67_OWNER_SERVICE_INFO_READY
    \/ session.PrevCMD = TO2_69_OWNER_SERVICE_INFO

IsLastOwnerPage_Early(session) ==
    session.OwnerSIMsSendCounter + 2 >= Len(session.OwnerSIMs)

IsLastOwnerPage_OffByOne(session) ==
    session.OwnerSIMsSendCounter + 1 > Len(session.OwnerSIMs)

\* int(session.OwnerSIMsSendCounter+1) >= len(session.OwnerSIMs)
IsLastOwnerPage(session) ==
    session.OwnerSIMsSendCounter + 1 >= Len(session.OwnerSIMs)

OwnerServiceInfo69(isDone, isMore, serviceInfo) ==
    [kind |-> "OwnerServiceInfo69", IsDone |-> isDone,
     IsMoreServiceInfo |-> isMore, ServiceInfo |-> serviceInfo]

\* The main body: the OwnerServiceInfo69 built for the decoded message and the
\* session as changed in memory. panic: a nil ServiceInfo dereferenced, or
\* OwnerSIMs indexed at or past its length (Go indexes from 0, TLA+ from 1).
BuildOwnerServiceInfo(session, msg) ==
    IF msg.IsMoreServiceInfo
    THEN IF msg.ServiceInfo = NilServiceInfo
         THEN [panic |-> TRUE, msg |-> NoMsg, session |-> session]
         ELSE [panic |-> FALSE,
               msg |-> OwnerServiceInfo69(FALSE, FALSE, NoPage),
               session |-> [session EXCEPT
                   !.DeviceSIMs = Append(session.DeviceSIMs, msg.ServiceInfo)]]
    ELSE IF session.OwnerSIMsSendCounter >= Len(session.OwnerSIMs)
         THEN [panic |-> TRUE, msg |-> NoMsg, session |-> session]
         ELSE [panic |-> FALSE,
               msg |-> OwnerServiceInfo69(IsLastOwnerPage(session),
                          ~IsLastOwnerPage(session),
                          session.OwnerSIMs[session.OwnerSIMsSendCounter + 1]),
               session |-> [session EXCEPT
                   !.OwnerSIMsFinishedSending =
                       IF IsLastOwnerPage(session) THEN TRUE
                       ELSE session.OwnerSIMsFinishedSending,
                   !.OwnerSIMsSendCounter = session.OwnerSIMsSendCounter + 1]]

UpdateFailed_Ignored(u) == FALSE

\* err != nil after h.session.UpdateSessionEntry
UpdateFailed(u) == ~u.ok

OkResp69(req, msg) ==
    Resp("ok", StatusOK, TO2_69_OWNER_SERVICE_INFO, req.token, msg)

\* The handler from the decrypted request on: rd is what receiveAndDecrypt
\* returned (the session snapshot and the test-run record), db and ldb the
\* stores when the handler writes.
Process68(db, ldb, rd, req) ==
    LET session == rd.session
        guid == session.Guid
        sel == SelectFor(rd.listener, "To2", TO2_68_DEVICE_SERVICE_INFO)
        l1 == IF sel.touched THEN WithRun(rd.listener, "To2", sel.run)
              ELSE rd.listener
        ldb1 == IF sel.touched THEN [ldb EXCEPT ![guid] = l1] ELSE ldb
    IN
    IF sel.touched /\ req.fault = "listenerSave1"
    THEN \* the test-run store refused the write: nothing of the run is kept
         Conf_RespondFDOError(db, ldb, guid, NoListener, "To2",
                              StatusBadRequest, "INTERNAL_SERVER_ERROR")
    ELSE IF ~PrevCmdAccepted(session)
    THEN Conf_RespondFDOError(db, ldb1, guid, l1, "To2",
                              StatusUnauthorized, "MESSAGE_BODY_ERROR")
    ELSE IF req.fault = "decode"
    THEN Conf_RespondFDOError(db, ldb1, guid, l1, "To2",
                              StatusBadRequest, "MESSAGE_BODY_ERROR")
    ELSE
    LET b == BuildOwnerServiceInfo(session, req.msg) IN
    IF b.panic
    THEN Outcome(db, ldb1, PanicResp, NoMsg, NoSession)
    ELSE IF req.fault = "encrypt"
    THEN Outcome(db, ldb1,
                 ErrorResp(StatusInternalServerError, "INTERNAL_SERVER_ERROR"),
                 b.msg, b.session)
    ELSE
    LET mem == [b.session EXCEPT !.PrevCMD = TO2_69_OWNER_SERVICE_INFO]
        u == UpdateSessionEntry(db, req.token, mem, req.fault # "sessionSave")
    IN
    IF UpdateFailed(u)
    THEN Outcome(u.db, ldb1,
                 ErrorResp(StatusInternalServerError, "INTERNAL_SERVER_ERROR"),
                 b.msg, mem)
    ELSE
    LET positive == sel.testId = FIDO_LISTENER_POSITIVE
        run2 == IF positive
                THEN CompleteCmdAndSetNext(sel.run, TO2_68_DEVICE_SERVICE_INFO)
                ELSE sel.run
        record == positive /\ CheckExpectedCmd(run2, TO2_68_DEVICE_SERVICE_INFO)
        run3 == CompleteCmdAndSetNext(PushSuccess(run2), TO2_64_PROVE_DEVICE)
    IN
    IF record /\ req.fault = "listenerSave2"
    THEN Outcome(u.db, ldb1,
                 ErrorResp(StatusBadRequest, "INTERNAL_SERVER_ERROR"), b.msg, mem)
    ELSE Outcome(u.db,
                 IF record THEN [ldb1 EXCEPT ![guid] = WithRun(l1, "To2", run3)]
                 ELSE ldb1,
                 OkResp69(req, b.msg), b.msg, mem)

DeviceServiceInfo68(db, ldb, req) ==
    IF ~CheckHeaders(req)
    THEN RespondFDOError(db, ldb, StatusBadRequest, "MESSAGE_BODY_ERROR")
    ELSE LET rd == receiveAndDecrypt(db, ldb, req) IN
         IF ~rd.ok THEN Outcome(db, ldb, rd.resp, NoMsg, NoSession)
         ELSE Process68(db, ldb, rd, req)

----------------------------------------------------------------------------
(* TO1: Handle30HelloRV and Handle32ProveToRV *)

RvSession(protocol, nonce, guid) ==
    [kind |-> "session", Protocol |-> protocol, NonceTO1Proof |-> nonce,
     Guid |-> guid]

\* an owner-sign entry: the stored To0d (decodable or not, its voucher's
\* header decodable or not, its device certificate chain) and the To1d
OwnerSign(to0dOk, headerOk, devKey, guid) ==
    [kind |-> "ownersign", To0dOk |-> to0dOk, HeaderOk |-> headerOk,
     OVDevCertChain |-> devKey,
     To1d |-> [kind |-> "To1d", guid |-> guid, fuzzed |-> FALSE]]

\* a COSE signature over an EAT payload carrying EatNonce
CoseSignature(nonce, key) == [EatNonce |-> nonce, SignedBy |-> key]

\* verification against the leaf key of the certificate chain: fails closed
VerifyCoseSignatureWithCertificate(sig, chain) == sig.SignedBy = chain

\* cbor.Marshal: the encoded bytes of a message
Marshal(msg) == [msg |-> msg, corrupt |-> FALSE]

\* fdoshared.Conf_RandomCborBufferFuzzing: bytes no conformant peer decodes
Conf_RandomCborBufferFuzzing(bytes) == [bytes EXCEPT !.corrupt = TRUE]

\* fdoshared.Conf_Fuzz_CoseSignature: the signature bytes replaced
Conf_Fuzz_CoseSignature(sig) == [sig EXCEPT !.fuzzed = TRUE]

HelloRVAck31(nonce) == [kind |-> "HelloRVAck31", NonceTO1Proof |-> nonce]

NewSessionInst_WrongProtocol(nonce, guid) == RvSession("To0", nonce, guid)

\* the SessionEntry Handle30HelloRV stores
NewSessionInst(nonce, guid) == RvSession("To1", nonce, guid)

HelloAckBytes_NeverFuzzed(fdoTestId, helloRVAckBytes) == helloRVAckBytes

\* if fdoTestId == testcom.FIDO_LISTENER_DEVICE_30_BAD_ENCODING { ... }
HelloAckBytes(fdoTestId, helloRVAckBytes) ==
    IF fdoTestId = FIDO_LISTENER_DEVICE_30_BAD_ENCODING
    THEN Conf_RandomCborBufferFuzzing(helloRVAckBytes) ELSE helloRVAckBytes

Handle30HelloRV(db, ldb, osdb, req) ==
    IF ~CheckHeaders(req)
    THEN RespondFDOError(db, ldb, StatusBadRequest, "MESSAGE_BODY_ERROR")
    ELSE IF req.fault \in {"readBody", "decode"}
    THEN Conf_RespondFDOError(db, ldb, req.guid, NoListener, "To1",
                              StatusBadRequest, "MESSAGE_BODY_ERROR")
    ELSE
    LET guid == req.guid
        l0 == ldb[guid]
        sel == SelectFor(l0, "To1", TO1_30_HELLO_RV)
        l1 == IF sel.touched THEN WithRun(l0, "To1", sel.run) ELSE l0
        ldb1 == IF sel.touched THEN [ldb EXCEPT ![guid] = l1] ELSE ldb
    IN
    IF sel.touched /\ req.fault = "listenerSave1"
    THEN \* the test-run store refused the write: nothing of the run is kept
         Conf_RespondFDOError(db, ldb, guid, NoListener, "To1",
                              StatusBadRequest, "INTERNAL_SERVER_ERROR")
    ELSE IF osdb[guid] = NoOwnerSign
    THEN Conf_RespondFDOError(db, ldb1, guid, l1, "To1",
                              StatusBadRequest, "RESOURCE_NOT_FOUND")
    ELSE
    LET nonceTO1Proof == req.nonce
        n == NewSessionEntry(db, req.newToken,
                             NewSessionInst(nonceTO1Proof, guid),
                             req.fault # "sessionSave")
    IN
    IF ~n.ok
    THEN Conf_RespondFDOError(n.db, ldb1, guid, l1, "To1",
                              StatusInternalServerError, "INTERNAL_SERVER_ERROR")
    ELSE
    LET bytes0 == Marshal(HelloRVAck31(nonceTO1Proof))
        helloRVAckBytes == HelloAckBytes(sel.testId, bytes0)
        record == sel.testId = FIDO_LISTENER_POSITIVE
                  /\ CheckExpectedCmd(sel.run, TO1_30_HELLO_RV)
        run2 == CompleteCmdAndSetNext(PushSuccess(sel.run), TO1_32_PROVE_TO_RV)
    IN
    IF record /\ req.fault = "listenerSave2"
    THEN Conf_RespondFDOError(n.db, ldb1, guid, NoListener, "To1",
                              StatusBadRequest, "INTERNAL_SERVER_ERROR")
    ELSE Outcome(n.db,
                 IF record THEN [ldb1 EXCEPT ![guid] = WithRun(l1, "To1", run2)]
                 ELSE ldb1,
                 Resp("ok", StatusOK, TO1_31_HELLO_RV_ACK, req.newToken,
                      helloRVAckBytes),
                 NoMsg, NoSession)

NonceMatches_Any(sig, session) == TRUE

\* bytes.Equal(pb.EatNonce[:], session.NonceTO1Proof[:])
NonceMatches(sig, session) == sig.EatNonce = session.NonceTO1Proof

SignatureVerified_Skipped(sig, entry) == TRUE

\* err == nil after fdoshared.VerifyCoseSignatureWithCertificate(proveToRV32,
\* voucherHeader.OVPublicKey.PkType, *to0d.OwnershipVoucher.OVDevCertChain)
SignatureVerified(sig, entry) ==
    VerifyCoseSignatureWithCertificate(sig, entry.OVDevCertChain)

Handle32ProveToRV(db, ldb, osdb, req) ==
    IF ~CheckHeaders(req)
    THEN RespondFDOError(db, ldb, StatusBadRequest, "MESSAGE_BODY_ERROR")
    ELSE IF req.fault = "auth"
    THEN \* ExtractAuthorizationHeader answers a missing header itself
         RespondFDOError(db, ldb, StatusUnauthorized, "MESSAGE_BODY_ERROR")
    ELSE
    LET got == GetSessionEntry(db, req.token) IN
    IF ~got.ok
    THEN RespondFDOError(db, ldb, StatusUnauthorized, "MESSAGE_BODY_ERROR")
    ELSE
    LET session == got.session IN
    IF session.Protocol # "To1"
    THEN RespondFDOError(db, ldb, StatusUnauthorized, "MESSAGE_BODY_ERROR")
    ELSE IF req.fault = "readBody"
    THEN RespondFDOError(db, ldb, StatusBadRequest, "MESSAGE_BODY_ERROR")
    ELSE
    LET guid == session.Guid
        l0 == ldb[guid]
        sel == SelectFor(l0, "To1", TO1_32_PROVE_TO_RV)
        l1 == IF sel.touched THEN WithRun(l0, "To1", sel.run) ELSE l0
        ldb1 == IF sel.touched THEN [ldb EXCEPT ![guid] = l1] ELSE ldb
        proveToRV32 == req.sig
    IN
    IF sel.touched /\ req.fault = "listenerSave1"
    THEN \* the test-run store refused the write: nothing of the run is kept
         Conf_RespondFDOError(db, ldb, guid, NoListener, "To1",
                              StatusBadRequest, "INTERNAL_SERVER_ERROR")
    ELSE IF req.fault \in {"decode", "decodePayload"}
    THEN Conf_RespondFDOError(db, ldb1, guid, l1, "To1",
                              StatusBadRequest, "MESSAGE_BODY_ERROR")
    ELSE IF ~NonceMatches(proveToRV32, session)
    THEN Conf_RespondFDOError(db, ldb1, guid, l1, "To2",
                              StatusBadRequest, "INVALID_MESSAGE_ERROR")
    ELSE
    LET savedOwnerSign == osdb[guid] IN
    IF savedOwnerSign = NoOwnerSign
    THEN Conf_RespondFDOError(db, ldb1, guid, l1, "To1",
                              StatusInternalServerError, "INVALID_MESSAGE_ERROR")
    ELSE IF ~savedOwnerSign.To0dOk
    THEN Conf_RespondFDOError(db, ldb1, guid, l1, "To1",
                              StatusBadRequest, "MESSAGE_BODY_ERROR")
    ELSE IF ~savedOwnerSign.HeaderOk
    THEN Conf_RespondFDOError(db, ldb1, guid, l1, "To1",
                              StatusBadRequest, "INVALID_MESSAGE_ERROR")
    ELSE IF ~SignatureVerified(proveToRV32, savedOwnerSign)
    THEN Conf_RespondFDOError(db, ldb1, guid, l1, "To1",
                              StatusBadRequest, "INVALID_MESSAGE_ERROR")
    ELSE
    LET to1d == IF sel.testId = FIDO_LISTENER_DEVICE_32_BAD_TO1D
                THEN Conf_Fuzz_CoseSignature(savedOwnerSign.To1d)
                ELSE savedOwnerSign.To1d
        bytes0 == Marshal(to1d)
        rvRedirectBytes ==
            IF sel.testId = FIDO_LISTENER_DEVICE_32_BAD_ENCODING
            THEN Conf_RandomCborBufferFuzzing(bytes0) ELSE bytes0
        positive == sel.testId = FIDO_LISTENER_POSITIVE
        run2 == CompleteTestRun(PushSuccess(sel.run))
    IN
    IF positive /\ req.fault = "listenerSave2"
    THEN Conf_RespondFDOError(db, ldb1, guid, NoListener, "To1",
                              StatusInternalServerError, "INTERNAL_SERVER_ERROR")
    ELSE Outcome(db,
                 IF positive THEN [ldb1 EXCEPT ![guid] = WithRun(l1, "To1", run2)]
                 ELSE ldb1,
                 Resp("ok", StatusOK, TO1_33_RV_REDIRECT, req.token,
                      rvRedirectBytes),
                 NoMsg, NoSession)

----------------------------------------------------------------------------
(* Initial states and the inputs of the requests *)

NoLast == [op |-> "none"]

IdleConc == [phase |-> "off"]

\* previous-step markers a TO2 session can hold when a 68 arrives:
\* 65 (SetupDevice), 67 (OwnerServiceInfoReady), 71 (Done2)
InitPrevCmds == {65, TO2_67_OWNER_SERVICE_INFO_READY, 71}

TestQueues68 == {<<FIDO_LISTENER_POSITIVE>>,
                 <<"FIDO_LISTENER_DEVICE_68_FAULT", FIDO_LISTENER_POSITIVE>>}

InitListeners68 ==
    {[g \in Guids |-> NoListener]}
    \cup {[g \in Guids |->
             IF g = "g1" THEN NewListener(IdleRun, NewRun(e, q)) ELSE NoListener] :
          e \in {TO2_68_DEVICE_SERVICE_INFO, TO2_64_PROVE_DEVICE},
          q \in TestQueues68}

LogRoom(ldb, guid) ==
    IF ldb[guid] = NoListener THEN TRUE
    ELSE Len(ldb[guid].To1.Log) < MaxLog /\ Len(ldb[guid].To2.Log) < MaxLog

InitTo2 ==
    /\ rvSessions = [t \in Tokens |-> NoSession]
    /\ ownersignDB = [g \in Guids |-> NoOwnerSign]
    /\ doSessions \in {[t \in Tokens |->
                          IF t = "t1" THEN DoSession("g1", p, OwnerPages(n))
                          ELSE NoSession] :
                       p \in InitPrevCmds, n \in 0..MaxOwnerPages}
    /\ listenerDB \in InitListeners68
    /\ lastStep = [t \in Tokens |-> 0]
    /\ sent = [t \in Tokens |-> <<>>]
    /\ last = NoLast
    /\ conc = IdleConc
    /\ ApiIdle
    /\ exec = NoExec

DeviceMsg(more, si) == [IsMoreServiceInfo |-> more, ServiceInfo |-> si]

\* the decoded bodies a device sends: a page with more to come, a nil
\* ServiceInfo, and its last message
DeviceMsgs68 ==
    {DeviceMsg(TRUE, si) : si \in DevicePayloads \cup {NilServiceInfo}}
    \cup {DeviceMsg(FALSE, "d1")}

\* a fault met before the body is decoded leaves the body unread; a token
\* without a session is answered before anything else is looked at
Requests68 ==
    {[token |-> "t1", fault |-> f, msg |-> m] :
        f \in {"none", "listenerSave1", "encrypt", "sessionSave", "listenerSave2"},
        m \in DeviceMsgs68}
    \cup {[token |-> "t1", fault |-> f, msg |-> DeviceMsg(FALSE, "d1")] :
             f \in {"headers", "auth", "decrypt", "decode"}}
    \cup {[token |-> "t2", fault |-> "none", msg |-> DeviceMsg(FALSE, "d1")]}

\* the owner pages the transport carries after the answer
Transmit(pages, resp) ==
    IF resp.kind = "ok" /\ resp.body.ServiceInfo # NoPage
    THEN Append(pages, resp.body.ServiceInfo) ELSE pages

Serve68 ==
    \E req \in Requests68 :
        LET pre == doSessions[req.token] IN
        \E out \in {DeviceServiceInfo68(doSessions, listenerDB, req)} :
            /\ IF pre = NoSession THEN TRUE
               ELSE /\ LogRoom(listenerDB, pre.Guid)
                    /\ IF req.msg.IsMoreServiceInfo
                       THEN Len(pre.DeviceSIMs) < MaxDeviceSIMs ELSE TRUE
            /\ doSessions' = out.db
            /\ listenerDB' = out.ldb
            /\ sent' = [sent EXCEPT ![req.token] = Transmit(@, out.resp)]
            /\ last' = [op |-> "DeviceServiceInfo68", req |-> req,
                        resp |-> out.resp, built |-> out.built,
                        mem |-> out.mem, pre |-> pre]
            /\ UNCHANGED <<rvSessions, ownersignDB, lastStep, conc, apiVars, exec>>

NextTo2 == Serve68

SpecTo2 == InitTo2 /\ [][NextTo2]_vars

----------------------------------------------------------------------------
(* The rendezvous server: initial stores, requests, actions *)

TestQueues1 == {<<FIDO_LISTENER_POSITIVE>>,
                <<FIDO_LISTENER_DEVICE_30_BAD_ENCODING, FIDO_LISTENER_POSITIVE>>,
                <<FIDO_LISTENER_DEVICE_32_BAD_TO1D,
                  FIDO_LISTENER_DEVICE_32_BAD_ENCODING>>}

InitListeners1 ==
    {[g \in Guids |-> NoListener]}
    \cup {[g \in Guids |->
             IF g = "g1" THEN NewListener(NewRun(e, q), IdleRun) ELSE NoListener] :
          e \in {TO1_30_HELLO_RV, TO1_32_PROVE_TO_RV}, q \in TestQueues1}

\* the owner-sign store as TO0 left it: g1 registered (its To0d or the
\* voucher header in it possibly not decodable), g2 never registered
InitOwnerSigns ==
    {[g \in Guids |-> IF g = "g1" THEN e1 ELSE NoOwnerSign] :
        e1 \in {OwnerSign(TRUE, TRUE, "k1", "g1"),
                OwnerSign(FALSE, TRUE, "k1", "g1"),
                OwnerSign(TRUE, FALSE, "k1", "g1")}}

\* the session store holds the sessions of TO0 too
InitRvSessions ==
    {[t \in Tokens |-> NoSession],
     [t \in Tokens |-> IF t = "t1" THEN RvSession("To0", "n0", "g1")
                       ELSE NoSession]}

InitTo1 ==
    /\ rvSessions \in InitRvSessions
    /\ ownersignDB \in InitOwnerSigns
    /\ doSessions = [t \in Tokens |-> NoSession]
    /\ listenerDB \in InitListeners1
    /\ lastStep = [t \in Tokens |-> 0]
    /\ sent = [t \in Tokens |-> <<>>]
    /\ last = NoLast
    /\ conc = IdleConc
    /\ ApiIdle
    /\ exec = NoExec

\* uuid.NewRandom: an identifier no stored session has
FreeTokens == {t \in Tokens : rvSessions[t] = NoSession}

\* a fault met before the nonce is drawn leaves nonce and identifier undrawn
HelloRequests ==
    {[guid |-> g, fault |-> f, nonce |-> n, newToken |-> t] :
        g \in Guids, f \in {"none", "sessionSave", "listenerSave2"},
        n \in Nonces, t \in FreeTokens}
    \cup {[guid |-> g, fault |-> f, nonce |-> "n0", newToken |-> ""] :
            g \in Guids, f \in {"headers", "readBody", "decode", "listenerSave1"}}

\* a fault met before the body is decoded leaves the signature unread
ProveRequests ==
    {[token |-> t, fault |-> f, sig |-> CoseSignature(n, k)] :
        t \in Tokens, f \in {"none", "listenerSave2"},
        n \in Nonces, k \in Keys}
    \cup {[token |-> t, fault |-> f, sig |-> CoseSignature("n0", "k1")] :
            t \in Tokens,
            f \in {"headers", "auth", "readBody", "listenerSave1", "decode",
                   "decodePayload"}}

Serve30 ==
    \E req \in HelloRequests :
        \E out \in {Handle30HelloRV(rvSessions, listenerDB, ownersignDB, req)} :
            /\ LogRoom(listenerDB, req.guid)
            /\ rvSessions' = out.db
            /\ listenerDB' = out.ldb
            /\ lastStep' = [t \in Tokens |->
                               IF out.db[t] # rvSessions[t]
                               THEN TO1_31_HELLO_RV_ACK ELSE lastStep[t]]
            /\ last' = [op |-> "Handle30HelloRV", req |-> req, resp |-> out.resp,
                        pre |-> NoSession, preStep |-> 0]
            /\ UNCHANGED <<ownersignDB, doSessions, sent, conc, apiVars, exec>>

Serve32 ==
    \E req \in ProveRequests :
        LET pre == rvSessions[req.token] IN
        \E out \in {Handle32ProveToRV(rvSessions, listenerDB, ownersignDB, req)} :
            /\ IF pre = NoSession THEN TRUE
               ELSE LogRoom(listenerDB, pre.Guid)
            /\ rvSessions' = out.db
            /\ listenerDB' = out.ldb
            /\ lastStep' = IF out.resp.kind = "ok"
                           THEN [lastStep EXCEPT ![req.token] =
                                    TO1_33_RV_REDIRECT]
                           ELSE lastStep
            /\ last' = [op |-> "Handle32ProveToRV", req |-> req,
                        resp |-> out.resp, pre |-> pre,
                        preStep |-> lastStep[req.token]]
            /\ UNCHANGED <<ownersignDB, doSessions, sent, conc, apiVars, exec>>

NextTo1 == Serve30 \/ Serve32

SpecTo1 == InitTo1 /\ [][NextTo1]_vars

----------------------------------------------------------------------------
(* Properties of the TO1 handlers, checked under SpecTo1 *)

Is30 == last.op = "Handle30HelloRV"

Is32 == last.op = "Handle32ProveToRV"

\* the 200 answer with message type 33
Redirected ==
    /\ Is32
    /\ last.resp.kind = "ok"
    /\ last.resp.status = StatusOK
    /\ last.resp.msgType = TO1_33_RV_REDIRECT

MetTo1Session ==
    Is32 /\ last.pre # NoSession /\ last.pre.Protocol = "To1"

\* C1: the Redirect is returned only if the EatNonce of the signed payload
\* equals the NonceTO1Proof of the session stored for the presented token; a
\* Prove with any other nonce ends with an error response.
C1_NonceGate ==
    /\ Redirected =>
           /\ MetTo1Session
           /\ last.req.sig.EatNonce = last.pre.NonceTO1Proof
    /\ (MetTo1Session /\ last.req.sig.EatNonce # last.pre.NonceTO1Proof) =>
           last.resp.kind = "error"

C1_Witness ==
    /\ MetTo1Session
    /\ last.req.fault = "none"
    /\ last.req.sig.EatNonce \in Nonces
    /\ last.req.sig.EatNonce # last.pre.NonceTO1Proof
    /\ SignatureVerified(last.req.sig, ownersignDB[last.pre.Guid])
    /\ last.resp = ErrorResp(StatusBadRequest, "INVALID_MESSAGE_ERROR")

\* C2: a Prove on a token whose last completed step is not the hello-ack (31)
\* is answered with a 400 or 401 error and never with the Redirect, also on a
\* token that was already answered with a Redirect.
C2_ProveOnlyAfterHelloAck ==
    (Is32 /\ last.preStep # TO1_31_HELLO_RV_ACK) =>
        /\ last.resp.kind = "error"
        /\ last.resp.status \in {StatusBadRequest, StatusUnauthorized}

StoredOwnerSignOk(guid) ==
    /\ ownersignDB[guid] # NoOwnerSign
    /\ ownersignDB[guid].To0dOk
    /\ ownersignDB[guid].HeaderOk

\* C3: the Redirect carries the To1d stored for the session's GUID and is
\* sent only when the owner-sign entry exists, its voucher header decodes and
\* the request's signature verifies against the voucher's device certificate
\* chain; otherwise the answer is an error.
C3_SignatureGate ==
    /\ Redirected =>
           /\ StoredOwnerSignOk(last.pre.Guid)
           /\ VerifyCoseSignatureWithCertificate(
                  last.req.sig, ownersignDB[last.pre.Guid].OVDevCertChain)
           /\ last.resp.body.msg.guid = last.pre.Guid
    /\ (MetTo1Session
        /\ ~(/\ StoredOwnerSignOk(last.pre.Guid)
             /\ VerifyCoseSignatureWithCertificate(
                    last.req.sig, ownersignDB[last.pre.Guid].OVDevCertChain))) =>
           last.resp.kind = "error"

C3_Witness ==
    /\ MetTo1Session
    /\ last.req.fault = "none"
    /\ last.req.sig.EatNonce = last.pre.NonceTO1Proof
    /\ StoredOwnerSignOk(last.pre.Guid)
    /\ last.req.sig.SignedBy # ownersignDB[last.pre.Guid].OVDevCertChain
    /\ last.resp = ErrorResp(StatusBadRequest, "INVALID_MESSAGE_ERROR")

\* the well-formed Prove of scenario A: the token's session is a TO1 session,
\* the payload carries its nonce, the signature verifies against the stored
\* voucher's chain, no test run exists for the GUID, no store fails
ScenarioAProve ==
    /\ MetTo1Session
    /\ last.req.fault = "none"
    /\ listenerDB[last.pre.Guid] = NoListener
    /\ last.req.sig.EatNonce = last.pre.NonceTO1Proof
    /\ StoredOwnerSignOk(last.pre.Guid)
    /\ VerifyCoseSignatureWithCertificate(
           last.req.sig, ownersignDB[last.pre.Guid].OVDevCertChain)

\* C4: for a GUID with a stored owner-sign entry and no test run, a well-formed
\* Hello met by working stores is answered 200 with the generated nonce and a
\* bearer token whose session stores that nonce and the GUID under TO1; a
\* Prove with that token, that nonce and a signature valid under the voucher's
\* chain is answered 200 with the stored To1d, unmodified.
C4_ScenarioA ==
    /\ (/\ Is30
        /\ last.req.fault = "none"
        /\ ownersignDB[last.req.guid] # NoOwnerSign
        /\ listenerDB[last.req.guid] = NoListener) =>
           /\ last.resp = Resp("ok", StatusOK, TO1_31_HELLO_RV_ACK,
                               last.req.newToken,
                               Marshal(HelloRVAck31(last.req.nonce)))
           /\ rvSessions[last.resp.auth] =
                  RvSession("To1", last.req.nonce, last.req.guid)
    /\ ScenarioAProve =>
           last.resp = Resp("ok", StatusOK, TO1_33_RV_REDIRECT, last.req.token,
                            Marshal(ownersignDB[last.pre.Guid].To1d))

C4_Witness ==
    /\ ScenarioAProve
    /\ last.preStep = TO1_31_HELLO_RV_ACK
    /\ Redirected
    /\ ~last.resp.body.corrupt
    /\ ~last.resp.body.msg.fuzzed

\* the test-run store with every fault identifier of the TO1 queues replaced
\* by an identifier that selects no fault
NoFaultRun(run) ==
    [run EXCEPT !.Tests = [i \in DOMAIN run.Tests |->
        IF run.Tests[i] \in {FIDO_LISTENER_DEVICE_30_BAD_ENCODING,
                             FIDO_LISTENER_DEVICE_32_BAD_ENCODING,
                             FIDO_LISTENER_DEVICE_32_BAD_TO1D}
        THEN "FIDO_LISTENER_NO_FAULT" ELSE run.Tests[i]]]

Unfaulted(ldb) ==
    [g \in Guids |-> IF ldb[g] = NoListener THEN NoListener
                     ELSE [ldb[g] EXCEPT !.To1 = NoFaultRun(@)]]

\* the answer differs from the baseline's in its body only
SameButBody(resp, base) ==
    /\ resp.kind = base.kind
    /\ resp.status = base.status
    /\ resp.msgType = base.msgType
    /\ resp.auth = base.auth
    /\ resp.kind = "ok" => resp.body # base.body
    /\ resp.kind # "ok" => resp.body = base.body

C12_Hello ==
    LET req == last'.req
        sel == SelectFor(listenerDB[req.guid], "To1", TO1_30_HELLO_RV)
        base == Handle30HelloRV(rvSessions, Unfaulted(listenerDB), ownersignDB, req)
    IN  sel.testId = FIDO_LISTENER_DEVICE_30_BAD_ENCODING =>
            /\ rvSessions' = base.db
            /\ ownersignDB' = ownersignDB
            /\ SameButBody(last'.resp, base.resp)
            /\ last'.resp.kind = "ok" =>
                   (last'.resp.body.corrupt /\ ~base.resp.body.corrupt)

C12_Prove ==
    LET req == last'.req
        pre == rvSessions[req.token]
        sel == IF pre = NoSession
               THEN SelectFor(NoListener, "To1", TO1_32_PROVE_TO_RV)
               ELSE SelectFor(listenerDB[pre.Guid], "To1", TO1_32_PROVE_TO_RV)
        base == Handle32ProveToRV(rvSessions, Unfaulted(listenerDB), ownersignDB, req)
    IN  sel.testId \in {FIDO_LISTENER_DEVICE_32_BAD_ENCODING,
                        FIDO_LISTENER_DEVICE_32_BAD_TO1D} =>
            /\ rvSessions' = base.db
            /\ ownersignDB' = ownersignDB
            /\ SameButBody(last'.resp, base.resp)

\* C12: when the test run selects a fault for the step (bad encoding on Hello
\* 30, bad encoding or corrupted To1d on Prove 32), the session store and the
\* owner-sign store after the step are those of the same step run with no
\* fault selected, and the answer differs from that run's in its body only.
C12_FaultIsOutputOnly ==
    [][/\ last'.op = "Handle30HelloRV" => C12_Hello
       /\ last'.op = "Handle32ProveToRV" => C12_Prove]_vars

C12_Witness ==
    /\ Is30
    /\ last.resp.kind = "ok"
    /\ last.resp.body.corrupt
    /\ rvSessions[last.resp.auth] = RvSession("To1", last.req.nonce, last.req.guid)

\* the outcomes a request added to a run's log
Recorded(before, after) == SubSeq(after.Log, Len(before.Log) + 1, Len(after.Log))

Has(seq, x) == \E i \in DOMAIN seq : seq[i] = x

\* the guid whose test-run record a TO1 request reaches, "" when the request
\* is answered before the record is loaded
ReachedRun1(req, op) ==
    IF op = "Handle30HelloRV"
    THEN IF req.fault \in {"headers", "readBody", "decode"} THEN "" ELSE req.guid
    ELSE IF \/ req.fault \in {"headers", "auth", "readBody"}
            \/ rvSessions[req.token] = NoSession
         THEN ""
         ELSE IF rvSessions[req.token].Protocol # "To1" THEN ""
              ELSE rvSessions[req.token].Guid

Cmd1(op) == IF op = "Handle30HelloRV" THEN TO1_30_HELLO_RV ELSE TO1_32_PROVE_TO_RV

\* the run is active, testing of the message type is open, the message type
\* is not the expected one and the active test is not the positive baseline
Unexpected(run, cmd) ==
    /\ ~CheckCmdTestingIsCompleted(run, cmd)
    /\ ~CheckExpectedCmd(run, cmd)
    /\ GetLastTestID(run) # FIDO_LISTENER_POSITIVE

C14_Step ==
    LET guid == ReachedRun1(last'.req, last'.op) IN
    IF guid = "" THEN TRUE
    ELSE IF listenerDB[guid] = NoListener THEN TRUE
    ELSE (/\ Unexpected(listenerDB[guid].To1, Cmd1(last'.op))
          /\ last'.req.fault \notin {"listenerSave1", "listenerSave2"}) =>
             LET rec == Recorded(listenerDB[guid].To1, listenerDB'[guid].To1) IN
             Has(rec, "fail") /\ ~Has(rec, "pass")

\* C14: with a test run active and the testing of the received message type
\* open, a TO1 request whose message type is not the run's ExpectedCmd, met
\* while the active test is not the positive baseline, adds a failure and no
\* success to the run's log.
C14_UnexpectedCmdFails ==
    [][last'.op \in {"Handle30HelloRV", "Handle32ProveToRV"} => C14_Step]_vars

\* C17: a TO1 request (Handle30HelloRV, Handle32ProveToRV) leaves the TO2 run
\* of every device as it met it: whatever it records goes to the TO1 run.
C17_To1RecordsInTo1Run ==
    [][last'.op \in {"Handle30HelloRV", "Handle32ProveToRV"} =>
          \A g \in Guids :
              IF listenerDB[g] = NoListener THEN listenerDB'[g] = NoListener
              ELSE listenerDB'[g].To2 = listenerDB[g].To2]_vars

\* C18: a well-formed Hello, met by working stores, for a GUID that has no
\* owner-sign entry is answered with status 404 and stores no session.
C18_UnknownGuidIs404 ==
    [][(/\ last'.op = "Handle30HelloRV"
        /\ last'.req.fault = "none"
        /\ ownersignDB[last'.req.guid] = NoOwnerSign) =>
           /\ last'.resp.kind = "error"
           /\ last'.resp.status = 404
           /\ rvSessions' = rvSessions]_vars

----------------------------------------------------------------------------
(* Properties of DeviceServiceInfo68, checked under SpecTo2 *)

Is68 == last.op = "DeviceServiceInfo68"

Met68 == Is68 /\ last.pre # NoSession

Accepted68 == Is68 /\ last.resp.kind = "ok"

LegalPrev68 == {TO2_67_OWNER_SERVICE_INFO_READY, TO2_69_OWNER_SERVICE_INFO}

\* C5: a 68 is processed only when the session's PrevCMD is 67 or 69; with any
\* other PrevCMD the answer is an error and the persisted session is the one
\* the request met; so a persisted PrevCMD of 69 came from 67 or 69.
C5_PrevCmdGate ==
    Met68 =>
        /\ last.pre.PrevCMD \notin LegalPrev68 =>
               /\ last.resp.kind = "error"
               /\ doSessions[last.req.token] = last.pre
        /\ doSessions[last.req.token].PrevCMD = TO2_69_OWNER_SERVICE_INFO =>
               last.pre.PrevCMD \in LegalPrev68

C5_Witness ==
    /\ Met68
    /\ last.req.fault = "none"
    /\ last.pre.PrevCMD \notin LegalPrev68
    /\ last.resp.status = StatusUnauthorized

Prefix(s, t) == Len(s) <= Len(t) /\ s = SubSeq(t, 1, Len(s))

\* C6: the owner pages written to the transport for a session, in order, are
\* the session's buffered OwnerSIMs: always a prefix of it, and the whole of
\* it once a response with IsDone=true was written.
C6_PagesInOrder ==
    \A t \in Tokens :
        doSessions[t] # NoSession =>
            /\ Prefix(sent[t], doSessions[t].OwnerSIMs)
            /\ (Accepted68 /\ last.req.token = t /\ last.resp.body.IsDone) =>
                   sent[t] = doSessions[t].OwnerSIMs

\* C7: a response with IsDone=true is written only for a device message with
\* IsMoreServiceInfo=false and carries the last buffered owner page, with
\* IsMoreServiceInfo=false; the handler sets OwnerSIMsFinishedSending exactly
\* when the response it builds has IsDone=true, and the flag is persisted
\* before that response is written.
C7_DoneOnlyWhenBothDone ==
    Met68 =>
        /\ (last.resp.kind = "ok" /\ last.resp.body.IsDone) =>
               /\ ~last.req.msg.IsMoreServiceInfo
               /\ ~last.resp.body.IsMoreServiceInfo
               /\ last.pre.OwnerSIMsSendCounter + 1 = Len(last.pre.OwnerSIMs)
               /\ last.resp.body.ServiceInfo =
                      last.pre.OwnerSIMs[Len(last.pre.OwnerSIMs)]
               /\ doSessions[last.req.token].OwnerSIMsFinishedSending
        /\ last.built # NoMsg =>
               (last.built.IsDone <=>
                    (last.mem.OwnerSIMsFinishedSending
                     /\ ~last.pre.OwnerSIMsFinishedSending))
        /\ (doSessions[last.req.token].OwnerSIMsFinishedSending
            /\ ~last.pre.OwnerSIMsFinishedSending) =>
               (last.built # NoMsg /\ last.built.IsDone)

C7_Witness ==
    /\ Accepted68
    /\ last.resp.body.IsDone
    /\ Len(last.pre.OwnerSIMs) >= 2
    /\ last.pre.DeviceSIMs # <<>>

\* C8: with exactly one buffered owner page, a response that carries an owner
\* page has IsDone=true and IsMoreServiceInfo=false, and at most one response
\* of the exchange carries a page.
C8_SinglePage ==
    (Met68 /\ Len(last.pre.OwnerSIMs) = 1) =>
        /\ (last.resp.kind = "ok" /\ last.resp.body.ServiceInfo # NoPage) =>
               (last.resp.body.IsDone /\ ~last.resp.body.IsMoreServiceInfo)
        /\ Len(sent[last.req.token]) <= 1

C8_Witness ==
    /\ Accepted68
    /\ Len(last.pre.OwnerSIMs) = 1
    /\ last.resp.body.ServiceInfo = 1
    /\ sent[last.req.token] = <<1>>

\* C9: the 200 OwnerServiceInfo69 is written only after UpdateSessionEntry
\* committed the updated session (PrevCMD 69, the counter advanced or the
\* device page appended); when UpdateSessionEntry fails the answer is the
\* internal error, never the 200, and the stored session is unchanged.
C9_CommitBeforeRespond ==
    Met68 =>
        /\ last.resp.kind = "ok" =>
               /\ doSessions[last.req.token] = last.mem
               /\ last.mem.PrevCMD = TO2_69_OWNER_SERVICE_INFO
               /\ IF last.req.msg.IsMoreServiceInfo
                  THEN last.mem.DeviceSIMs =
                           Append(last.pre.DeviceSIMs, last.req.msg.ServiceInfo)
                  ELSE last.mem.OwnerSIMsSendCounter =
                           last.pre.OwnerSIMsSendCounter + 1
        /\ last.req.fault = "sessionSave" =>
               /\ last.resp.kind # "ok"
               /\ doSessions[last.req.token] = last.pre
               /\ last.built # NoMsg =>
                      last.resp = ErrorResp(StatusInternalServerError,
                                            "INTERNAL_SERVER_ERROR")

C9_Witness ==
    /\ Met68
    /\ last.req.fault = "sessionSave"
    /\ last.built # NoMsg
    /\ last.resp.status = StatusInternalServerError
    /\ doSessions[last.req.token] = last.pre

\* the outcomes a run's log holds
Outcomes(listener, protocol) ==
    IF listener = NoListener THEN 0 ELSE Len(RunOf(listener, protocol).Log)

\* the request got past receiveAndDecrypt: the handler holds the session and
\* the device's test-run record
Holds68(req, pre) ==
    /\ pre # NoSession
    /\ req.fault \notin {"headers", "auth", "decrypt"}
    /\ listenerDB[pre.Guid] # NoListener

\* C13: a DeviceServiceInfo68 that ends with an error response while a test
\* run exists for the device has recorded exactly one outcome in the device's
\* TO2 run: the log is one entry longer than the request met it.
C13_OneOutcomePerError ==
    [][(/\ last'.op = "DeviceServiceInfo68"
        /\ last'.resp.kind = "error"
        /\ Holds68(last'.req, last'.pre)) =>
           Outcomes(listenerDB'[last'.pre.Guid], "To2") =
               Outcomes(listenerDB[last'.pre.Guid], "To2") + 1]_vars

\* C15: after a DeviceServiceInfo68 succeeded under the positive baseline
\* test, the ExpectedCmd of the device's TO2 run is a message type the owner
\* accepts next on that session: 68 (more service info) or 70 (Done).
C15_ExpectedNextIsLegal ==
    (/\ Accepted68
     /\ listenerDB[last.pre.Guid] # NoListener
     /\ GetLastTestID(listenerDB[last.pre.Guid].To2) = FIDO_LISTENER_POSITIVE) =>
        listenerDB[last.pre.Guid].To2.ExpectedCmd
            \in {TO2_68_DEVICE_SERVICE_INFO, 70}

\* the oracle is a pass-through for the request: no test-run record exists
\* for the device, or testing of message type 68 is already marked complete
PassThrough68(listener) ==
    IF listener = NoListener THEN TRUE
    ELSE CheckCmdTestingIsCompleted(listener.To2, TO2_68_DEVICE_SERVICE_INFO)

PersistenceFailed68 ==
    /\ Met68
    /\ last.req.fault \in {"listenerSave1", "sessionSave", "listenerSave2"}
    /\ last.resp.kind = "error"
    /\ last.resp.body = "INTERNAL_SERVER_ERROR"

\* C19: a DeviceServiceInfo68 that met a persistence failure, saving the
\* session entry or saving the test-run record, is answered with status 500.
C19_PersistenceFailureIs500 ==
    PersistenceFailed68 => last.resp.status = StatusInternalServerError

\* C24: whatever session a DeviceServiceInfo68 meets and whatever decoded
\* body it carries (one without ServiceInfo included), the handler ends with
\* a response, an answer or an error, and every persisted session has
\* OwnerSIMsSendCounter <= len(OwnerSIMs): OwnerSIMs is indexed only below
\* its length, also when it is empty and after the answer with IsDone.
C24_RespondsAlways ==
    /\ Is68 => last.resp.kind \in {"ok", "error"}
    /\ \A t \in Tokens :
           IF doSessions[t] = NoSession THEN TRUE
           ELSE doSessions[t].OwnerSIMsSendCounter <= Len(doSessions[t].OwnerSIMs)

\* C25: the payload of every accepted DeviceServiceInfo68 is appended to the
\* session's DeviceSIMs, in the order of arrival, the payload of the device's
\* last message (IsMoreServiceInfo = false) included.
C25_DevicePayloadsKept ==
    Accepted68 =>
        doSessions[last.req.token].DeviceSIMs =
            Append(last.pre.DeviceSIMs, last.req.msg.ServiceInfo)

----------------------------------------------------------------------------
(* Two DeviceServiceInfo68 requests bearing the same token, each handled by   *)
(* its own goroutine. A request reads the session in the transaction of       *)
(* GetSessionEntry (inside receiveAndDecrypt) and writes it back in the       *)
(* transaction of UpdateSessionEntry; nothing is held between the two, so     *)
(* the other request's steps can fall in between.                             *)

Workers == {1, 2}

ConcRequests ==
    {[token |-> "t1", fault |-> f, msg |-> m] :
        f \in {"none", "sessionSave"}, m \in DeviceMsgs68}

IdleWorker == [pc |-> "idle", req |-> NoMsg, rd |-> NoMsg, resp |-> NoResp]

InitTo2Conc ==
    /\ rvSessions = [t \in Tokens |-> NoSession]
    /\ ownersignDB = [g \in Guids |-> NoOwnerSign]
    /\ doSessions \in {[t \in Tokens |->
                          IF t = "t1"
                          THEN DoSession("g1", TO2_67_OWNER_SERVICE_INFO_READY,
                                         OwnerPages(n))
                          ELSE NoSession] : n \in 0..MaxOwnerPages}
    /\ listenerDB = [g \in Guids |-> NoListener]
    /\ lastStep = [t \in Tokens |-> 0]
    /\ sent = [t \in Tokens |-> <<>>]
    /\ last = NoLast
    /\ conc = [phase |-> "on", start |-> doSessions,
               w |-> [i \in Workers |-> IdleWorker]]
    /\ ApiIdle
    /\ exec = NoExec

\* the request arrives: headers checked, session snapshot read
Receive68(i) ==
    /\ conc.w[i].pc = "idle"
    /\ \E req \in ConcRequests :
         \E rd \in {receiveAndDecrypt(doSessions, listenerDB, req)} :
           /\ CheckHeaders(req)
           /\ rd.ok
           /\ conc' = [conc EXCEPT !.w[i] =
                          [pc |-> "read", req |-> req, rd |-> rd, resp |-> NoResp]]
    /\ UNCHANGED <<rvSessions, ownersignDB, doSessions, listenerDB, lastStep,
                   sent, last, apiVars, exec>>

\* the rest of the handler, on the snapshot: compute, write back, answer
Respond68(i) ==
    /\ conc.w[i].pc = "read"
    /\ \E out \in {Process68(doSessions, listenerDB, conc.w[i].rd, conc.w[i].req)} :
           /\ doSessions' = out.db
           /\ listenerDB' = out.ldb
           /\ sent' = [sent EXCEPT !["t1"] = Transmit(@, out.resp)]
           /\ conc' = [conc EXCEPT !.w[i].pc = "done", !.w[i].resp = out.resp]
    /\ UNCHANGED <<rvSessions, ownersignDB, lastStep, last, apiVars, exec>>

NextTo2Conc == \E i \in Workers : Receive68(i) \/ Respond68(i)

SpecTo2Conc == InitTo2Conc /\ [][NextTo2Conc]_vars

\* the session store after request ra, then request rb, each run alone
Serial68(db0, ra, rb) ==
    DeviceServiceInfo68(DeviceServiceInfo68(db0, listenerDB, ra).db,
                        listenerDB, rb).db

BothDone == conc.phase = "on" /\ \A i \in Workers : conc.w[i].pc = "done"

CarriesPage(resp) == resp.kind = "ok" /\ resp.body.ServiceInfo # NoPage

\* C10: two requests on one token handled concurrently leave the session
\* store as running them one after the other in some order would; two that
\* each transmit an owner page transmit different pages and advance
\* OwnerSIMsSendCounter by 2.
C10_SessionUpdateAtomic ==
    BothDone =>
        /\ doSessions \in {Serial68(conc.start, conc.w[1].req, conc.w[2].req),
                           Serial68(conc.start, conc.w[2].req, conc.w[1].req)}
        /\ (CarriesPage(conc.w[1].resp) /\ CarriesPage(conc.w[2].resp)) =>
               /\ conc.w[1].resp.body.ServiceInfo # conc.w[2].resp.body.ServiceInfo
               /\ doSessions["t1"].OwnerSIMsSendCounter =
                      conc.start["t1"].OwnerSIMsSendCounter + 2

----------------------------------------------------------------------------
(* The user API: Register, Login, LoginOnPremNoLogin, UserLoggedIn, Config, *)
(* Logout and PurgeTests over the user store and the session store.         *)

StatusMethodNotAllowed == 405

\* the session store with its entries' expiry times
Store(db, exp, crt) == [db |-> db, exp |-> exp, crt |-> crt]

\* NewSessionEntry at the given time: the encoded entry is stored under the
\* key of the new identifier, WithTTL
StoreNew(st, t, inst, commits, clock) ==
    [ok |-> commits,
     st |-> IF commits
            THEN Store([st.db EXCEPT ![SessionKey(t)] = cborMarshal(inst)],
                       [st.exp EXCEPT ![SessionKey(t)] = WithTTL(clock)],
                       [st.crt EXCEPT ![t] = clock])
            ELSE st]

\* the entry is written under the key of another identifier
StoreUpdate_WrongKey(st, t, inst, commits) ==
    LET other == CHOOSE o \in Tokens : o # t IN
    [ok |-> commits,
     st |-> IF commits
            THEN Store([st.db EXCEPT ![SessionKey(other)] = cborMarshal(inst)],
                       [st.exp EXCEPT ![SessionKey(other)] = NoTTL], st.crt)
            ELSE st]

\* UpdateSessionEntry: the encoded entry is set under the key of the
\* identifier, with no TTL
StoreUpdate(st, t, inst, commits) ==
    [ok |-> commits,
     st |-> IF commits
            THEN Store([st.db EXCEPT ![SessionKey(t)] = cborMarshal(inst)],
                       [st.exp EXCEPT ![SessionKey(t)] = NoTTL], st.crt)
            ELSE st]

\* GetSessionEntry: the entry under the key of the identifier, decoded
StoreGet(st, t) ==
    LET item == st.db[SessionKey(t)] IN
    IF item = NoSession THEN [ok |-> FALSE, session |-> NoSession]
    ELSE cborUnmarshal(item)

\* DeleteSessionEntry: the entry is removed
StoreDelete(st, t, commits) ==
    [ok |-> commits,
     st |-> IF commits
            THEN Store([st.db EXCEPT ![SessionKey(t)] = NoSession],
                       [st.exp EXCEPT ![SessionKey(t)] = NoTTL], st.crt)
            ELSE st]

\* the salted scrypt hash of a password
generatePasswordHash(password) == <<"salt", password>>

verifyPasswordHash(password, passwordHash) ==
    generatePasswordHash(password) = passwordHash

\* the addresses the pattern of isEmailValid matches: lower case, a top-level
\* domain of 2 to 4 letters (ONPREM_CONFIG ends in .local and does not match)
isEmailValid(e) == e \in {"a@fido.org", "b@fido.org"}

\* dbs.UserTestDBEntry
User(email, hash, tests) ==
    [kind |-> "user", Email |-> email, PasswordHash |-> hash,
     DeviceTestInsts |-> tests, DOTestInsts |-> tests, RVTestInsts |-> tests]

ApiResp(status, cookie, body) ==
    [kind |-> IF status = StatusOK THEN "ok" ELSE "error", status |-> status,
     cookie |-> cookie, body |-> body]

\* RespondError: the error answer, no cookie set
RespondError(body, status) == ApiResp(status, "-", body)

\* RespondSuccess after http.SetCookie(w, GenerateCookie(sessionDbId))
RespondSuccessCookie(sessionDbId) == ApiResp(StatusOK, sessionDbId, "ok")

RespondSuccess == ApiResp(StatusOK, "-", "ok")

ApiOutcome(st, udb, resp) == [st |-> st, udb |-> udb, resp |-> resp]

\* the session a login ends with: NewSessionEntry, then the cookie
StartSession(st, udb, clock, email, req) ==
    LET n == StoreNew(st, req.newToken, SessionEntry(email),
                      req.fault # "sessionSave", clock) IN
    IF ~n.ok
    THEN ApiOutcome(n.st, udb,
                    RespondError("Internal server error. ", StatusBadRequest))
    ELSE ApiOutcome(n.st, udb, RespondSuccessCookie(req.newToken))

Register(st, udb, clock, mode, req) ==
    IF req.fault = "headers"
    THEN ApiOutcome(st, udb, RespondError("headers", StatusBadRequest))
    ELSE IF mode = "onprem"
    THEN ApiOutcome(st, udb, RespondError("Unauthorized!", StatusUnauthorized))
    ELSE IF req.fault \in {"readBody", "decode"}
    THEN ApiOutcome(st, udb, RespondError("body", StatusBadRequest))
    ELSE IF ~isEmailValid(req.email)
    THEN ApiOutcome(st, udb, RespondError("Invalid email!", StatusBadRequest))
    ELSE IF req.fault \in {"name", "company", "phone", "password"}
    THEN ApiOutcome(st, udb, RespondError(req.fault, StatusBadRequest))
    ELSE IF udb[req.email] # NoUser
    THEN ApiOutcome(st, udb, RespondError("User exists.", StatusBadRequest))
    ELSE IF req.fault = "hash"
    THEN ApiOutcome(st, udb, RespondError("Internal server error.",
                                          StatusInternalServerError))
    ELSE IF req.fault = "userSave"
    THEN ApiOutcome(st, udb, RespondError("Internal server error.",
                                          StatusInternalServerError))
    ELSE StartSession(st,
             [udb EXCEPT ![req.email] =
                 User(req.email, generatePasswordHash(req.password), <<>>)],
             clock, req.email, req)

Login(st, udb, clock, mode, req) ==
    IF req.fault = "headers"
    THEN ApiOutcome(st, udb, RespondError("headers", StatusBadRequest))
    ELSE IF mode = "onprem"
    THEN ApiOutcome(st, udb, RespondError("Unauthorized!", StatusUnauthorized))
    ELSE IF req.fault \in {"readBody", "decode"}
    THEN ApiOutcome(st, udb, RespondError("body", StatusBadRequest))
    ELSE IF ~isEmailValid(req.email)
    THEN ApiOutcome(st, udb, RespondError("Invalid email!", StatusBadRequest))
    ELSE IF udb[req.email] = NoUser
    THEN ApiOutcome(st, udb, RespondError("Invalid email or password",
                                          StatusBadRequest))
    ELSE IF req.fault = "hash"
    THEN ApiOutcome(st, udb, RespondError("Invalid emails or password",
                                          StatusBadRequest))
    ELSE IF ~verifyPasswordHash(req.password, udb[req.email].PasswordHash)
    THEN ApiOutcome(st, udb, RespondError("Invalid username or password",
                                          StatusBadRequest))
    ELSE StartSession(st, udb, clock, req.email, req)

LoginOnPremNoLogin(st, udb, clock, mode, req) ==
    IF req.fault = "headers"
    THEN ApiOutcome(st, udb, RespondError("headers", StatusBadRequest))
    ELSE IF mode = "online"
    THEN ApiOutcome(st, udb, RespondError("Unauthorized!", StatusUnauthorized))
    ELSE IF udb[ONPREM_CONFIG] = NoUser /\ req.fault = "userSave"
    THEN ApiOutcome(st, udb, RespondError("Internal server error.",
                                          StatusInternalServerError))
    ELSE StartSession(st,
             IF udb[ONPREM_CONFIG] = NoUser
             THEN [udb EXCEPT ![ONPREM_CONFIG] = User(ONPREM_CONFIG, <<>>, <<>>)]
             ELSE udb,
             clock, ONPREM_CONFIG, req)

NoCookie == ""

\* the session of the request's cookie and its user, or the 401 that answers
\* a request without a cookie, without a session or without a user
Authenticate(st, udb, req) ==
    IF req.cookie = NoCookie
    THEN [ok |-> FALSE, session |-> NoSession, user |-> NoUser]
    ELSE LET got == StoreGet(st, req.cookie) IN
         IF ~got.ok
         THEN [ok |-> FALSE, session |-> NoSession, user |-> NoUser]
         ELSE [ok |-> udb[got.session.Email] # NoUser, session |-> got.session,
               user |-> udb[got.session.Email]]

Unauthorized_BadRequest(st, udb) ==
    ApiOutcome(st, udb, RespondError("Unauthorized", StatusBadRequest))

\* RespondError(w, "Unauthorized", http.StatusUnauthorized)
Unauthorized(st, udb) ==
    ApiOutcome(st, udb, RespondError("Unauthorized", StatusUnauthorized))

MethodNotAllowed(st, udb) ==
    ApiOutcome(st, udb, RespondError("Method not allowed!", StatusMethodNotAllowed))

UserLoggedIn(st, udb, req) ==
    IF req.method # "GET" THEN MethodNotAllowed(st, udb)
    ELSE IF ~Authenticate(st, udb, req).ok THEN Unauthorized(st, udb)
    ELSE ApiOutcome(st, udb, RespondSuccess)

Config(st, udb, mode, req) ==
    IF req.method # "GET" THEN MethodNotAllowed(st, udb)
    ELSE ApiOutcome(st, udb, ApiResp(StatusOK, "-", mode))

Logout_KeepsSession(st, udb, req) ==
    IF req.method # "POST" THEN MethodNotAllowed(st, udb)
    ELSE IF Authenticate(st, udb, req).session = NoSession
    THEN Unauthorized(st, udb)
    ELSE ApiOutcome(st, udb, RespondSuccessCookie(NoCookie))

\* Logout asks for the session only, not for its user
Logout(st, udb, req) ==
    IF req.method # "POST" THEN MethodNotAllowed(st, udb)
    ELSE IF Authenticate(st, udb, req).session = NoSession
    THEN Unauthorized(st, udb)
    ELSE LET d == StoreDelete(st, req.cookie, req.fault # "sessionDelete") IN
         IF ~d.ok THEN Unauthorized(d.st, udb)
         ELSE ApiOutcome(d.st, udb, RespondSuccessCookie(NoCookie))

Emptied_KeepsRVTests(userInst) ==
    [userInst EXCEPT !.DeviceTestInsts = <<>>, !.DOTestInsts = <<>>]

\* the user with the three lists of test instances set to empty ones
Emptied(userInst) ==
    [userInst EXCEPT !.DeviceTestInsts = <<>>,
                     !.DOTestInsts = <<>>,
                     !.RVTestInsts = <<>>]

PurgeTests(st, udb, req) ==
    IF req.method # "POST" THEN MethodNotAllowed(st, udb)
    ELSE LET a == Authenticate(st, udb, req) IN
    IF ~a.ok THEN Unauthorized(st, udb)
    ELSE IF req.fault = "userSave"
    THEN ApiOutcome(st, udb, RespondError("Internal server error",
                                          StatusInternalServerError))
    ELSE ApiOutcome(st, [udb EXCEPT ![a.user.Email] = Emptied(a.user)],
                    RespondSuccess)

\* a server with one registered user who has test instances on file, and a
\* rendezvous session store that holds one session, of TO0
InitApi ==
    /\ rvSessions = [t \in Tokens |-> IF t = "t1" THEN RvSession("To0", "n0", "g1")
                                     ELSE NoSession]
    /\ ownersignDB = [g \in Guids |-> IF g = "g1" THEN OwnerSign(TRUE, TRUE, "k1", "g1")
                                      ELSE NoOwnerSign]
    /\ doSessions = [t \in Tokens |-> NoSession]
    /\ listenerDB = [g \in Guids |-> NoListener]
    /\ lastStep = [t \in Tokens |-> 0]
    /\ sent = [t \in Tokens |-> <<>>]
    /\ last = NoLast
    /\ conc = IdleConc
    /\ userSessions = [k \in SessionKeys |-> NoSession]
    /\ expiresAt = [k \in SessionKeys |-> NoTTL]
    /\ createdAt = [t \in Tokens |-> -1]
    /\ userDB = [e \in Emails |->
                    IF e = "a@fido.org"
                    THEN User(e, generatePasswordHash("pw1"), <<"test1">>)
                    ELSE NoUser]
    /\ now = 0
    /\ cfgMode \in {"online", "onprem"}
    /\ exec = NoExec

\* uuid.NewRandom: an identifier that was never given out before
FreeUserTokens == {t \in Tokens : createdAt[t] < 0}

CurrentStore == Store(userSessions, expiresAt, createdAt)

\* what an API request leaves behind
ApiDone(op, req, out) ==
    /\ userSessions' = out.st.db
    /\ expiresAt' = out.st.exp
    /\ createdAt' = out.st.crt
    /\ userDB' = out.udb
    /\ last' = [op |-> op, req |-> req, resp |-> out.resp]
    /\ UNCHANGED <<protoVars, now, cfgMode, exec>>

\* a request answered before its body is read leaves the body unread
RegisterRequests ==
    {[email |-> e, password |-> "pw1", fault |-> f, newToken |-> t] :
        e \in {"a@fido.org", "b@fido.org"}, f \in {"none", "sessionSave"},
        t \in FreeUserTokens}
    \cup {[email |-> "b@fido.org", password |-> "pw1", fault |-> f,
           newToken |-> ""] :
            f \in {"headers", "readBody", "decode", "name", "company", "phone",
                   "password", "hash", "userSave"}}
    \cup {[email |-> "A@FIDO", password |-> "pw1", fault |-> "none",
           newToken |-> ""]}

LoginRequests ==
    {[email |-> e, password |-> p, fault |-> f, newToken |-> t] :
        e \in {"a@fido.org", "b@fido.org"}, p \in {"pw1", "pw2"},
        f \in {"none", "sessionSave"}, t \in FreeUserTokens}
    \cup {[email |-> "a@fido.org", password |-> "pw1", fault |-> f,
           newToken |-> ""] : f \in {"headers", "readBody", "decode", "hash"}}
    \cup {[email |-> "A@FIDO", password |-> "pw1", fault |-> "none",
           newToken |-> ""]}

OnPremRequests ==
    {[fault |-> f, newToken |-> t] :
        f \in {"none", "userSave", "sessionSave"}, t \in FreeUserTokens}
    \cup {[fault |-> "headers", newToken |-> ""]}

\* the requests of the cookie-authenticated handlers; fails names the store
\* operation of the handler that can fail
CookieRequests(fails) ==
    {[method |-> m, cookie |-> c, fault |-> f] :
        m \in {"GET", "POST"}, c \in Tokens \cup {NoCookie},
        f \in {"none"} \cup fails}

ServeRegister ==
    \E req \in RegisterRequests :
        \E out \in {Register(CurrentStore, userDB, now, cfgMode, req)} :
            ApiDone("Register", req, out)

ServeLogin ==
    \E req \in LoginRequests :
        \E out \in {Login(CurrentStore, userDB, now, cfgMode, req)} :
            ApiDone("Login", req, out)

ServeLoginOnPremNoLogin ==
    \E req \in OnPremRequests :
        \E out \in {LoginOnPremNoLogin(CurrentStore, userDB, now, cfgMode, req)} :
            ApiDone("LoginOnPremNoLogin", req, out)

ServeUserLoggedIn ==
    \E req \in CookieRequests({}) :
        \E out \in {UserLoggedIn(CurrentStore, userDB, req)} :
            ApiDone("UserLoggedIn", req, out)

ServeConfig ==
    \E req \in {r \in CookieRequests({}) : r.cookie = NoCookie} :
        \E out \in {Config(CurrentStore, userDB, cfgMode, req)} :
            ApiDone("Config", req, out)

ServeLogout ==
    \E req \in CookieRequests({"sessionDelete"}) :
        \E out \in {Logout(CurrentStore, userDB, req)} :
            ApiDone("Logout", req, out)

ServePurgeTests ==
    \E req \in CookieRequests({"userSave"}) :
        \E out \in {PurgeTests(CurrentStore, userDB, req)} :
            ApiDone("PurgeTests", req, out)

----------------------------------------------------------------------------
(* The session store by itself: its three operations called in any order   *)
(* by the code that holds a SessionDB, and time passing.                   *)

InitSessionDB ==
    /\ rvSessions = [t \in Tokens |-> NoSession]
    /\ ownersignDB = [g \in Guids |-> NoOwnerSign]
    /\ doSessions = [t \in Tokens |-> NoSession]
    /\ listenerDB = [g \in Guids |-> NoListener]
    /\ lastStep = [t \in Tokens |-> 0]
    /\ sent = [t \in Tokens |-> <<>>]
    /\ last = NoLast
    /\ conc = IdleConc
    /\ ApiIdle
    /\ exec = NoExec

DbNewSessionEntry ==
    \E t \in FreeUserTokens, e \in Emails, commits \in BOOLEAN :
        \E n \in {StoreNew(CurrentStore, t, SessionEntry(e), commits, now)} :
            /\ userSessions' = n.st.db
            /\ expiresAt' = n.st.exp
            /\ createdAt' = n.st.crt
            /\ last' = [op |-> "NewSessionEntry", token |-> t, ok |-> n.ok,
                        session |-> SessionEntry(e)]
            /\ UNCHANGED <<protoVars, userDB, now, cfgMode, exec>>

DbUpdateSessionEntry ==
    \E t \in Tokens, e \in Emails, commits \in BOOLEAN :
        \E u \in {StoreUpdate(CurrentStore, t, SessionEntry(e), commits)} :
            /\ userSessions' = u.st.db
            /\ expiresAt' = u.st.exp
            /\ createdAt' = u.st.crt
            /\ last' = [op |-> "UpdateSessionEntry", token |-> t, ok |-> u.ok,
                        session |-> SessionEntry(e)]
            /\ UNCHANGED <<protoVars, userDB, now, cfgMode, exec>>

DbGetSessionEntry ==
    \E t \in Tokens :
        \E g \in {StoreGet(CurrentStore, t)} :
            /\ last' = [op |-> "GetSessionEntry", token |-> t, ok |-> g.ok,
                        session |-> g.session]
            /\ UNCHANGED <<protoVars, apiVars, exec>>

\* a week passes: the entries whose expiry time has come are gone
Tick ==
    /\ now < MaxClock
    /\ now' = now + 1
    /\ userSessions' = Unexpired(userSessions, expiresAt, now + 1)
    /\ last' = [op |-> "Tick"]
    /\ UNCHANGED <<protoVars, expiresAt, createdAt, userDB, cfgMode, exec>>

NextSessionDB ==
    DbNewSessionEntry \/ DbUpdateSessionEntry \/ DbGetSessionEntry \/ Tick

SpecSessionDB == InitSessionDB /\ [][NextSessionDB]_vars

NextApi ==
    \/ ServeRegister \/ ServeLogin \/ ServeLoginOnPremNoLogin
    \/ ServeUserLoggedIn \/ ServeConfig \/ ServeLogout \/ ServePurgeTests
    \/ Serve32 \/ Tick

SpecApi == InitApi /\ [][NextApi]_vars

\* C11: a session stored by NewSessionEntry is inaccessible once
\* MAX_SESSION_TIME has passed since it was stored, whatever UpdateSessionEntry
\* calls it took in between: GetSessionEntry on its token fails.
C11_ExpiresAfterWindow ==
    \A t \in Tokens :
        (createdAt[t] >= 0 /\ now >= createdAt[t] + MAX_SESSION_TIME) =>
            ~StoreGet(CurrentStore, t).ok

----------------------------------------------------------------------------
(* Properties of the session store, checked under SpecSessionDB *)

StoreOp == last'.op \in {"NewSessionEntry", "UpdateSessionEntry", "GetSessionEntry"}

NextStore == Store(userSessions', expiresAt', createdAt')

\* C23: an entry is stored under the key "session-" + token. The token that
\* NewSessionEntry returns reads back, with GetSessionEntry, the entry that
\* was passed in; after UpdateSessionEntry(t, s) GetSessionEntry(t) returns
\* s; and no operation on one token changes what is stored for another.
C23_RoundTripPerToken ==
    [][StoreOp =>
          /\ (last'.op # "GetSessionEntry" /\ last'.ok) =>
                 /\ userSessions'[SessionKey(last'.token)] # NoSession
                 /\ StoreGet(NextStore, last'.token) =
                        [ok |-> TRUE, session |-> last'.session]
          /\ last'.op = "GetSessionEntry" =>
                 /\ userSessions' = userSessions
                 /\ last'.ok = (userSessions[SessionKey(last'.token)] # NoSession)
          /\ \A o \in Tokens \ {last'.token} :
                 /\ userSessions'[SessionKey(o)] = userSessions[SessionKey(o)]
                 /\ StoreGet(NextStore, o) = StoreGet(CurrentStore, o)]_vars

C23_Witness ==
    /\ last.op = "UpdateSessionEntry"
    /\ last.ok
    /\ last.token = "t1"
    /\ StoreGet(CurrentStore, "t1") = [ok |-> TRUE, session |-> SessionEntry("b@fido.org")]
    /\ StoreGet(CurrentStore, "t2") = [ok |-> TRUE, session |-> SessionEntry("a@fido.org")]

----------------------------------------------------------------------------
(* Properties of the token checks, checked under SpecApi *)

RightMethod(op, req) ==
    req.method = (IF op = "UserLoggedIn" THEN "GET" ELSE "POST")

\* the cookie-authenticated request bears a token that has no session entry
BearsDeadCookie ==
    /\ last'.op \in {"UserLoggedIn", "Logout", "PurgeTests"}
    /\ RightMethod(last'.op, last'.req)
    /\ last'.req.cookie # NoCookie
    /\ ~StoreGet(CurrentStore, last'.req.cookie).ok

\* the Prove bears a token that has no session entry, or the session of
\* another sub-protocol
BearsDeadToken ==
    /\ last'.op = "Handle32ProveToRV"
    /\ last'.req.fault # "headers"
    /\ IF rvSessions[last'.req.token] = NoSession THEN TRUE
       ELSE rvSessions[last'.req.token].Protocol # "To1"

\* C20: a request with the right method and headers that bears a token for
\* which no session entry exists (never issued, expired or deleted), or, for
\* Handle32ProveToRV, a token whose session belongs to another sub-protocol,
\* is answered with 401 and leaves every store as it met it; for
\* Handle32ProveToRV, UserLoggedIn, Logout and PurgeTests.
C20_DeadTokenIs401 ==
    [][(BearsDeadCookie \/ BearsDeadToken) =>
           /\ last'.resp.status = StatusUnauthorized
           /\ UNCHANGED <<protoVars, apiVars>>]_vars

C20_Witness ==
    /\ last.op = "Logout"
    /\ last.req.method = "POST"
    /\ last.req.cookie # NoCookie
    /\ createdAt[last.req.cookie] >= 0
    /\ ~StoreGet(CurrentStore, last.req.cookie).ok
    /\ last.resp.status = StatusUnauthorized

\* the step is a Logout that succeeds
LoggedOut == last'.op = "Logout" /\ last'.resp.status = StatusOK

\* the token was given out and its session was deleted before it expired
Invalidated(t) ==
    /\ createdAt[t] >= 0
    /\ now < createdAt[t] + MAX_SESSION_TIME
    /\ userSessions[SessionKey(t)] = NoSession

\* C28: a Logout that succeeds for a session cookie removes that session and
\* no other; the token stays without a session from then on, and every later
\* UserLoggedIn, Logout or PurgeTests that carries it (sent with the
\* handler's method) is answered with 401.
C28_LogoutInvalidates ==
    [][/\ LoggedOut =>
              /\ userSessions[SessionKey(last'.req.cookie)] # NoSession
              /\ userSessions'[SessionKey(last'.req.cookie)] = NoSession
              /\ \A o \in Tokens \ {last'.req.cookie} :
                     /\ userSessions'[SessionKey(o)] = userSessions[SessionKey(o)]
                     /\ expiresAt'[SessionKey(o)] = expiresAt[SessionKey(o)]
       /\ \A t \in Tokens :
              Invalidated(t) =>
                  /\ userSessions'[SessionKey(t)] = NoSession
                  /\ (/\ last'.op \in {"UserLoggedIn", "Logout", "PurgeTests"}
                      /\ RightMethod(last'.op, last'.req)
                      /\ last'.req.cookie = t) =>
                         last'.resp.status = StatusUnauthorized]_vars

\* a request bearing a logged-out token is refused while the session of
\* another token is still there
C28_Witness ==
    /\ last.op \in {"UserLoggedIn", "PurgeTests"}
    /\ RightMethod(last.op, last.req)
    /\ last.req.cookie # NoCookie
    /\ Invalidated(last.req.cookie)
    /\ last.resp.status = StatusUnauthorized
    /\ \E o \in Tokens \ {last.req.cookie} : StoreGet(CurrentStore, o).ok

----------------------------------------------------------------------------
(* Properties of the users' test instances, checked under SpecApi *)

TestInsts(userInst) ==
    <<userInst.DeviceTestInsts, userInst.DOTestInsts, userInst.RVTestInsts>>

\* the step takes test instances of user e away
LosesTests(e) ==
    IF userDB[e] = NoUser THEN FALSE
    ELSE IF userDB'[e] = NoUser THEN TRUE
    ELSE \E k \in 1..3 :
             \E x \in 1..Len(TestInsts(userDB[e])[k]) :
                 ~Has(TestInsts(userDB'[e])[k], TestInsts(userDB[e])[k][x])

\* the step is a PurgeTests sent with POST and the cookie of a live session
\* of a user on file, and the save of the user does not fail
PurgeCalled ==
    /\ last'.op = "PurgeTests"
    /\ last'.req.method = "POST"
    /\ last'.req.cookie # NoCookie
    /\ last'.req.fault = "none"
    /\ IF ~StoreGet(CurrentStore, last'.req.cookie).ok THEN FALSE
       ELSE userDB[StoreGet(CurrentStore, last'.req.cookie).session.Email] # NoUser

PurgingUser == StoreGet(CurrentStore, last'.req.cookie).session.Email

----------------------------------------------------------------------------
(* The test batches of the TO2 requestor: preExecuteTo2_66, executeTo2_66  *)
(* and executeTo2_60_Vouchers. The owner under test and the voucher store  *)
(* are the environment: what they answer is the input of every iteration.  *)

MaxOVEntries == 3    \* longest voucher the owner announces

FIDO_DOT_66_POSITIVE == "FIDO_DOT_66_POSITIVE"

\* testcom.FIDO_TEST_LIST_DOT_66: the positive test among fault tests
TestLists66 ==
    { <<FIDO_DOT_66_POSITIVE, "FIDO_DOT_66_BAD_ENCODING">>,
      <<"FIDO_DOT_66_BAD_ENCODING", FIDO_DOT_66_POSITIVE>>,
      <<"FIDO_DOT_66_BAD_ENCODING", FIDO_DOT_66_POSITIVE, "FIDO_DOT_66_BAD_ENCRYPTION">> }

\* testcom.FIDO_TEST_LIST_VOUCHER
TestListsVoucher ==
    { <<"FIDO_TEST_VOUCHER_BAD_HDR">>,
      <<"FIDO_TEST_VOUCHER_BAD_HDR", "FIDO_TEST_VOUCHER_BAD_ENTRY">> }

NilRequestor == [kind |-> "nil"]

\* to2.NewTo2Requestor: a requestor of its own, told apart by its serial
NewTo2Requestor(serial) == [kind |-> "requestor", serial |-> serial]

\* the key of the ProveOVHdr61 signature, kept in ProveOVHdr61PubKey
ProveOVHdr61PubKey == "k1"

\* one call of the handshake: the function, what it was called with, what
\* came back, and whether it came back without an error
Call(fn, arg, got, ok) == [fn |-> fn, arg |-> arg, got |-> got, ok |-> ok]

\* what the owner under test and the voucher store answer in one handshake
Envs66 ==
    { env \in
        [ voucher : BOOLEAN,            \* TestVouchers.GetVoucher finds the voucher
          hello : BOOLEAN,              \* HelloDevice60 returns no error
          NumOVEntries : 0..MaxOVEntries,
          bad : 0..(MaxOVEntries - 1),  \* the entry that is at fault, if any
          badKind : {"none", "err", "num", "sig"},
          hmac : BOOLEAN,               \* the header's HMAC is the announced one
          lastKey : Keys,               \* the public key of the last entry
          verifyEmpty : BOOLEAN,        \* VerifyEntries of no entries succeeds
          prove : BOOLEAN ] :           \* ProveDevice64 returns no error
        /\ env.badKind = "none" => env.bad = 0
        /\ env.badKind # "none" => env.bad < env.NumOVEntries
        /\ env.NumOVEntries > 0 => env.verifyEmpty }

\* GetOVNextEntry62(i): the owner's answer to the request for entry i
GetOVNextEntry62(env, i) ==
    LET atFault(kind) == env.bad = i /\ env.badKind = kind
    IN  [ err |-> atFault("err"),
          OVEntryNum |-> IF atFault("num") THEN (i + 1) % 256 ELSE i,
          OVEntry |-> [ id |-> i,
                        sigOk |-> ~atFault("sig"),
                        key |-> IF i = env.NumOVEntries - 1 THEN env.lastKey
                                ELSE "k2" ] ]

\* the entry is taken when its reported number is not the one asked for
EntryAccepted_Any(nextEntry, i) == TRUE

\* nextEntry.OVEntryNum != uint8(i): the entry is refused
EntryAccepted(nextEntry, i) == nextEntry.OVEntryNum = i % 256

\* OVEntryArray.VerifyEntries: every entry verifies against the one before
\* it (the header for the first) and the header carries the announced HMAC
VerifyEntries(ovEntries, env) ==
    IF ovEntries = <<>> THEN env.verifyEmpty
    ELSE /\ env.hmac
         /\ \A k \in 1..Len(ovEntries) :
                ovEntries[k].sigOk /\ ovEntries[k].id = k - 1

PreResult(requestor, err, trace, panic) ==
    [requestor |-> requestor, err |-> err, trace |-> trace, panic |-> panic]

\* the loop over the voucher entries: it ends with the entries collected,
\* or returns from preExecuteTo2_66 with the err of its last call
RECURSIVE EntryLoop(_, _, _, _)
EntryLoop(env, i, ovEntries, trace) ==
    IF i >= env.NumOVEntries
    THEN [returned |-> FALSE, err |-> FALSE, ovEntries |-> ovEntries, trace |-> trace]
    ELSE LET nextEntry == GetOVNextEntry62(env, i)
             tr == Append(trace, Call("GetOVNextEntry62", i, nextEntry.OVEntryNum,
                                      ~nextEntry.err))
         IN  IF nextEntry.err
             THEN [returned |-> TRUE, err |-> TRUE, ovEntries |-> ovEntries, trace |-> tr]
             ELSE IF ~EntryAccepted(nextEntry, i)
             THEN [returned |-> TRUE, err |-> nextEntry.err, ovEntries |-> ovEntries,
                   trace |-> tr]
             ELSE EntryLoop(env, i + 1, Append(ovEntries, nextEntry.OVEntry), tr)

Ids(ovEntries) == [k \in 1..Len(ovEntries) |-> ovEntries[k].id]

\* preExecuteTo2_66: the handshake up to ProveDevice64 on a new requestor
preExecuteTo2_66(env, serial) ==
    IF ~env.voucher THEN PreResult(NilRequestor, TRUE, <<>>, FALSE)
    ELSE
    LET to2requestor == NewTo2Requestor(serial)
        t60 == <<Call("HelloDevice60", NULL_TEST, env.NumOVEntries, env.hello)>>
    IN
    IF ~env.hello THEN PreResult(NilRequestor, TRUE, t60, FALSE)
    ELSE
    LET loop == EntryLoop(env, 0, <<>>, t60)
    IN
    IF loop.returned THEN PreResult(NilRequestor, loop.err, loop.trace, FALSE)
    ELSE
    LET ovEntries == loop.ovEntries
        verified == VerifyEntries(ovEntries, env)
        t43 == Append(loop.trace, Call("VerifyEntries", Ids(ovEntries), 0, verified))
    IN
    IF ~verified THEN PreResult(NilRequestor, TRUE, t43, FALSE)
    ELSE IF Len(ovEntries) = 0
    THEN \* ovEntries[len(ovEntries)-1] of no entries: index out of range
         PreResult(NilRequestor, FALSE, t43, TRUE)
    ELSE
    LET lastOvEntry == ovEntries[Len(ovEntries)]
        equals == ProveOVHdr61PubKey = lastOvEntry.key
        t51 == Append(t43, Call("Equals", lastOvEntry.id, lastOvEntry.key, equals))
    IN
    IF ~equals THEN PreResult(NilRequestor, TRUE, t51, FALSE)
    ELSE
    LET t56 == Append(t51, Call("ProveDevice64", NULL_TEST, 0, env.prove))
    IN
    IF ~env.prove THEN PreResult(NilRequestor, TRUE, t56, FALSE)
    ELSE PreResult(to2requestor, FALSE, t56, FALSE)

\* what a test step of the requestor returns: its test state (nil, or one
\* that passed or failed) and whether it returns an error
StepReturns == [state : {"nil", "passed", "failed"}, err : BOOLEAN]

\* testcom.FDOTestState, as ReportTest stores it for the test
FDOTestState(testId, passed) == [testId |-> testId, Passed |-> passed]

\* a batch about to run the tests of a list
NewBatch(batch, list) ==
    [ batch |-> batch, list |-> list,
      idx |-> 1,             \* the test of the list that runs next
      status |-> "running",  \* "returned" and "panicked" end the batch
      reports |-> <<>>,      \* the calls of ReportTest, in order
      trace |-> <<>>,        \* the calls of the iteration that ran last
      built |-> 0,           \* requestors built so far
      ranOn |-> 0,           \* serial of the requestor the last test step ran on
      nilCall |-> FALSE,     \* a test step was called on a nil requestor
      pre |-> [requestor |-> "none", err |-> FALSE, panic |-> FALSE] ]
                             \* what preExecuteTo2_66 returned last

\* reqtDB.ReportTest
ReportTest(e, testId, passed) ==
    [e EXCEPT !.reports = Append(@, FDOTestState(testId, passed))]

\* the end of an iteration: return, or the next test of the range
Return(e) == [e EXCEPT !.status = "returned"]

Continue(e) ==
    [e EXCEPT !.idx = @ + 1,
              !.status = IF e.idx + 1 > Len(e.list) THEN "returned" ELSE @]

\* a runtime panic ends the batch where it stands
Panic(e) == [e EXCEPT !.status = "panicked"]

\* the report of a fault test: the step's test state, or a failed one made
\* of its error when it returned none; *rvtTestState of a nil state panics
ReportStep(e, testId, ret) ==
    IF ret.state = "nil" /\ ret.err THEN Continue(ReportTest(e, testId, FALSE))
    ELSE IF ret.state = "nil" THEN Panic(e)
    ELSE Continue(ReportTest(e, testId, ret.state = "passed"))

\* every iteration builds its requestor
FreshRequestor(e) == e.built + 1

\* one iteration of the range of executeTo2_66
executeTo2_66(e, env, ret) ==
    LET testId == e.list[e.idx]
        pre == preExecuteTo2_66(env, FreshRequestor(e))
        e1 == [e EXCEPT !.trace = pre.trace,
                        !.built = IF env.voucher THEN FreshRequestor(e) ELSE @,
                        !.ranOn = 0,
                        !.pre = [requestor |-> pre.requestor.kind, err |-> pre.err,
                                 panic |-> pre.panic]]
    IN
    IF pre.panic THEN Panic(e1)
    ELSE IF pre.err THEN Return(ReportTest(e1, testId, FALSE))
    ELSE
    IF pre.requestor = NilRequestor
    THEN \* DeviceServiceInfoReady66 on a nil *To2Requestor
         Panic([e1 EXCEPT !.nilCall = TRUE])
    ELSE
    LET e3 == [e1 EXCEPT !.trace = Append(@, Call("DeviceServiceInfoReady66", testId,
                                                 ret.state, ~ret.err)),
                         !.ranOn = pre.requestor.serial]
    IN
    IF testId = FIDO_DOT_66_POSITIVE
    THEN IF ret.err THEN Return(ReportTest(e3, testId, FALSE))
         ELSE Continue(ReportTest(e3, testId, TRUE))
    ELSE ReportStep(e3, testId, ret)

\* one iteration of the range of executeTo2_60_Vouchers
executeTo2_60_Vouchers(e, voucher, ret) ==
    LET testId == e.list[e.idx]
        e0 == [e EXCEPT !.trace = <<>>, !.ranOn = 0]
    IN
    IF ~voucher THEN Return(ReportTest(e0, testId, FALSE))
    ELSE
    LET to2requestor == NewTo2Requestor(FreshRequestor(e))
        e1 == [e0 EXCEPT !.built = to2requestor.serial,
                         !.ranOn = to2requestor.serial,
                         !.trace = <<Call("HelloDevice60", testId, ret.state, ~ret.err)>>]
    IN  ReportStep(e1, testId, ret)

InitExec ==
    /\ rvSessions = [t \in Tokens |-> NoSession]
    /\ ownersignDB = [g \in Guids |-> NoOwnerSign]
    /\ doSessions = [t \in Tokens |-> NoSession]
    /\ listenerDB = [g \in Guids |-> NoListener]
    /\ lastStep = [t \in Tokens |-> 0]
    /\ sent = [t \in Tokens |-> <<>>]
    /\ last = NoLast
    /\ conc = IdleConc
    /\ ApiIdle
    /\ exec \in {NewBatch("66", l) : l \in TestLists66}
                \cup {NewBatch("60", l) : l \in TestListsVoucher}

Run66 ==
    /\ exec.batch = "66"
    /\ exec.status = "running"
    /\ \E env \in Envs66, ret \in StepReturns :
           /\ exec' = executeTo2_66(exec, env, ret)
           /\ last' = [op |-> "executeTo2_66"]
    /\ UNCHANGED <<protoVars, apiVars>>

Run60 ==
    /\ exec.batch = "60"
    /\ exec.status = "running"
    /\ \E voucher \in BOOLEAN, ret \in StepReturns :
           /\ exec' = executeTo2_60_Vouchers(exec, voucher, ret)
           /\ last' = [op |-> "executeTo2_60_Vouchers"]
    /\ UNCHANGED <<protoVars, apiVars>>

NextExec == Run66 \/ Run60

SpecExec == InitExec /\ [][NextExec]_vars

----------------------------------------------------------------------------
(* Properties of the requestor's batches, checked under SpecExec *)

Ran66 == exec.batch = "66" /\ exec.trace # <<>>

\* the position of ProveDevice64 in the handshake that ran last, 0: not sent
Sent64 ==
    IF \E p \in 1..Len(exec.trace) : exec.trace[p].fn = "ProveDevice64"
    THEN CHOOSE p \in 1..Len(exec.trace) : exec.trace[p].fn = "ProveDevice64"
    ELSE 0

AnnouncedEntries == exec.trace[1].got

\* C21: the requestor asks for the voucher entries by the indices 0, 1, ...
\* in this order and never beyond NumOVEntries-1; it takes an entry only when
\* the entry's reported number is the index asked for; ProveDevice64 is sent
\* only after HelloDevice60 succeeded, all NumOVEntries entries were received
\* and taken, VerifyEntries succeeded on the whole chain, and the last entry's
\* key equalled the key that proved the header, so that a failure of any of
\* these ends the handshake before ProveDevice64.
C21_EntriesThenProveDevice ==
    Ran66 =>
        /\ exec.trace[1].fn = "HelloDevice60"
        /\ \A p \in 2..Len(exec.trace) :
               exec.trace[p].fn = "GetOVNextEntry62" =>
                   /\ exec.trace[p].arg = p - 2
                   /\ exec.trace[p].arg < AnnouncedEntries
                   /\ (p < Len(exec.trace) =>
                           exec.trace[p].ok /\ exec.trace[p].got = exec.trace[p].arg)
        /\ Sent64 # 0 =>
               LET n == AnnouncedEntries
               IN  /\ n >= 1
                   /\ Sent64 = n + 4
                   /\ \A p \in 1..(Sent64 - 1) : exec.trace[p].ok
                   /\ \A i \in 0..(n - 1) :
                          /\ exec.trace[i + 2].fn = "GetOVNextEntry62"
                          /\ exec.trace[i + 2].got = i
                   /\ exec.trace[n + 2].fn = "VerifyEntries"
                   /\ exec.trace[n + 2].arg = [k \in 1..n |-> k - 1]
                   /\ exec.trace[n + 3].fn = "Equals"
                   /\ exec.trace[n + 3].arg = n - 1
                   /\ exec.trace[n + 3].got = ProveOVHdr61PubKey

C21_Witness ==
    /\ Ran66
    /\ Sent64 # 0
    /\ AnnouncedEntries = 2
    /\ exec.trace[Sent64].ok

\* preExecuteTo2_66 was called and returned
Returned66 == exec.batch = "66" /\ exec.pre.requestor # "none" /\ ~exec.pre.panic

\* C26: preExecuteTo2_66 returns a requestor with no error, or no requestor
\* with an error, on every path, also when a voucher entry reports another
\* number than the index asked for; so executeTo2_66 never calls
\* DeviceServiceInfoReady66 on a nil requestor.
C26_RequestorOrError ==
    /\ Returned66 => (exec.pre.requestor = "nil") = exec.pre.err
    /\ ~exec.nilCall

\* the tests of the list the batch has reached
Reached ==
    IF exec.status = "running" \/ exec.idx > Len(exec.list) THEN exec.idx - 1
    ELSE exec.idx

LastCall == exec.trace[Len(exec.trace)]

\* the iteration that ran last called the test step on a requestor
TestStepRan ==
    /\ exec.trace # <<>>
    /\ \/ exec.batch = "66" /\ LastCall.fn = "DeviceServiceInfoReady66"
       \/ exec.batch = "60"

\* the iteration that ran last failed in the pre-setup, in the lookup of
\* the voucher, or in the positive test
FailedHard ==
    /\ Reached > 0
    /\ \/ exec.batch = "66" /\ ~exec.pre.panic /\ exec.pre.requestor # "requestor"
       \/ exec.batch = "60" /\ exec.trace = <<>>
       \/ /\ TestStepRan
          /\ LastCall.arg = FIDO_DOT_66_POSITIVE
          /\ ~LastCall.ok

\* C27: both batches take the tests of their list in order, run each on a
\* requestor built for it, and call ReportTest exactly once for every test
\* they reach, whatever the test step returns; after a failed pre-setup, a
\* failed voucher lookup or a failed positive test the test is reported as
\* failed and the batch ends: no later test is run or reported.
C27_OneReportPerTest ==
    exec.batch \in {"66", "60"} =>
        /\ Len(exec.reports) = Reached
        /\ \A k \in 1..Len(exec.reports) : exec.reports[k].testId = exec.list[k]
        /\ TestStepRan => exec.ranOn = Reached /\ exec.built = Reached
        /\ FailedHard =>
               /\ exec.status = "returned"
               /\ Len(exec.reports) = exec.idx
               /\ ~exec.reports[exec.idx].Passed

====
